---- MODULE Spec2Model ----
(***************************************************************************)
(* Model of the block-pushing puzzle solver of src/algorithms.py: the map  *)
(* reader (Maze.read_input, Maze._calculate_blank_tiles), the move         *)
(* generator (State.get_agent_movements, Maze._generate_new_states), the   *)
(* heuristic, the state key (Maze._compress_state) and the four searches;   *)
(* and of the playback of a found path in src/core.py (Game) under the     *)
(* buttons of src/main.py (MainGui) and src/elements/button.py.            *)
(* Positions are (row, col) pairs with Python's 0-based indices; lists are *)
(* TLA+ sequences, so list index i is sequence index i + 1.                *)
(***************************************************************************)
EXTENDS Integers, Sequences, FiniteSets, TLC

VARIABLES pc, algorithm, tiles, size, state, frontier, visited, nodes_count, path, error,
          first_line, maze_strings_list, results,
          game, buttons, pending_tasks, gui_pc

\* The Game and MainGui objects
gui_vars == <<game, buttons, pending_tasks, gui_pc>>

vars == <<pc, algorithm, tiles, size, state, frontier, visited, nodes_count, path, error,
          first_line, maze_strings_list, results, gui_vars>>

\* ------------------------------------------------------------------------
\* Bounds of the model
\* ------------------------------------------------------------------------
\* Most stones ('$' or '*') an input map holds.
MaxStones == 2
\* Most switches ('.' or '*') an input map holds.
MaxSwitches == 2

\* ------------------------------------------------------------------------
\* Generic helpers
\* ------------------------------------------------------------------------
EmptyMap == [p \in {} |-> 0]

Abs(x) == IF x < 0 THEN -x ELSE x

Max(a, b) == IF a >= b THEN a ELSE b

Reverse(s) == [i \in 1..Len(s) |-> s[Len(s) + 1 - i]]

RECURSIVE SumOver(_, _)
SumOver(f, S) ==
    IF S = {} THEN 0
    ELSE LET x == CHOOSE y \in S : TRUE IN f[x] + SumOver(f, S \ {x})

MinOf(S) == CHOOSE x \in S : \A y \in S : x <= y

\* A Python list index: i in [0, n) is itself, i in [-n, 0) counts from the
\* end, anything else raises IndexError (here: -1).
PyIndex(i, n) ==
    IF 0 <= i /\ i < n THEN i
    ELSE IF -n <= i /\ i < 0 THEN i + n
    ELSE -1

\* ------------------------------------------------------------------------
\* Tile and Movement enumerations
\* ------------------------------------------------------------------------
TileNONE == "NONE"
TileBLANK == "BLANK"
TileBRICK == "BRICK"

\* Tile.value or ' ' : the character _compress_state draws for a tile.
TileChar(t) == IF t = TileBRICK THEN "#" ELSE " "

\* Movement members in definition order: ((horizontal, vertical), action).
Movement == <<
    [horizontal |-> -1, vertical |-> 0, action |-> "l"],
    [horizontal |-> 1, vertical |-> 0, action |-> "r"],
    [horizontal |-> 0, vertical |-> -1, action |-> "u"],
    [horizontal |-> 0, vertical |-> 1, action |-> "d"] >>

Upper(a) ==
    CASE a = "l" -> "L" [] a = "r" -> "R" [] a = "u" -> "U" [] a = "d" -> "D" [] OTHER -> a

\* ------------------------------------------------------------------------
\* State (State.__init__) and Maze construction
\* ------------------------------------------------------------------------
NewState == [agent_position |-> <<>>, stones_weights |-> EmptyMap, switches_states |-> EmptyMap]

\* Fault variant of is_finished: any() in place of all().
is_finished_any(s) == \E p \in DOMAIN s.switches_states : s.switches_states[p]

\* Fault variant of is_finished: a state without switches is not finished.
is_finished_some_switch(s) ==
    /\ DOMAIN s.switches_states # {}
    /\ \A p \in DOMAIN s.switches_states : s.switches_states[p]

is_finished(s) == \A p \in DOMAIN s.switches_states : s.switches_states[p]

\* ------------------------------------------------------------------------
\* Maze.read_input
\* ------------------------------------------------------------------------
RECURSIVE MaxLineLen(_)
MaxLineLen(lines) ==
    IF lines = <<>> THEN 0 ELSE Max(Len(Head(lines)), MaxLineLen(Tail(lines)))

\* f"{line}{(maze_cols - line_length) * ' '}"
PadLine(line, maze_cols) ==
    line \o [i \in 1..(maze_cols - Len(line)) |-> " "]

PadLines(lines) == [r \in 1..Len(lines) |-> PadLine(lines[r], MaxLineLen(lines))]

\* Fault variant of ReadChar: '*' records its switch as uncovered.
ReadCharStarUncovered(acc, row, col, char) ==
    LET pos == <<row, col>>
        popped == acc.weights[Len(acc.weights)]
        rest == SubSeq(acc.weights, 1, Len(acc.weights) - 1)
        withTile(a, t) ==
            [a EXCEPT !.tiles = [@ EXCEPT ![row + 1] = Append(@, t)]]
        putStone(a) ==
            [a EXCEPT !.stones_weights =
                          [p \in DOMAIN @ \cup {pos} |-> IF p = pos THEN popped ELSE @[p]],
                      !.weights = rest]
        putSwitch(a, v) ==
            [a EXCEPT !.switches_states =
                          [p \in DOMAIN @ \cup {pos} |-> IF p = pos THEN v ELSE @[p]]]
    IN  CASE char \in {"@", "+"} ->
                withTile([acc EXCEPT !.agent_position = pos], TileNONE)
          [] char = "$" ->
                IF acc.weights = <<>> THEN [acc EXCEPT !.status = "IndexError"]
                ELSE withTile(putStone(acc), TileNONE)
          [] char \in {".", "*"} ->
                IF char = "*" /\ acc.weights = <<>> THEN [acc EXCEPT !.status = "IndexError"]
                ELSE withTile(putSwitch(IF char = "*" THEN putStone(acc) ELSE acc, FALSE),
                              TileNONE)
          [] char = " " ->
                withTile(acc, TileNONE)
          [] char = "#" ->
                withTile(acc, TileBRICK)
          [] OTHER ->
                [acc EXCEPT !.status = "invalid"]

\* One character of the grid (the match statement). acc.weights is the
\* reversed weight list, popped from its end.
ReadChar(acc, row, col, char) ==
    LET pos == <<row, col>>
        popped == acc.weights[Len(acc.weights)]
        rest == SubSeq(acc.weights, 1, Len(acc.weights) - 1)
        withTile(a, t) ==
            [a EXCEPT !.tiles = [@ EXCEPT ![row + 1] = Append(@, t)]]
        putStone(a) ==
            [a EXCEPT !.stones_weights =
                          [p \in DOMAIN @ \cup {pos} |-> IF p = pos THEN popped ELSE @[p]],
                      !.weights = rest]
        putSwitch(a, v) ==
            [a EXCEPT !.switches_states =
                          [p \in DOMAIN @ \cup {pos} |-> IF p = pos THEN v ELSE @[p]]]
    IN  CASE char \in {"@", "+"} ->
                withTile([acc EXCEPT !.agent_position = pos], TileNONE)
          [] char = "$" ->
                IF acc.weights = <<>> THEN [acc EXCEPT !.status = "IndexError"]
                ELSE withTile(putStone(acc), TileNONE)
          [] char = "." ->
                withTile(putSwitch(acc, FALSE), TileNONE)
          [] char = "*" ->
                IF acc.weights = <<>> THEN [acc EXCEPT !.status = "IndexError"]
                ELSE withTile(putSwitch(putStone(acc), TRUE), TileNONE)
          [] char = " " ->
                withTile(acc, TileNONE)
          [] char = "#" ->
                withTile(acc, TileBRICK)
          [] OTHER ->
                [acc EXCEPT !.status = "invalid"]

RECURSIVE ReadCols(_, _, _, _)
ReadCols(acc, row, line, col) ==
    IF acc.status # "ok" \/ col >= Len(line) THEN acc
    ELSE ReadCols(ReadChar(acc, row, col, line[col + 1]), row, line, col + 1)

RECURSIVE ReadRows(_, _, _)
ReadRows(acc, lines, row) ==
    IF acc.status # "ok" \/ row >= Len(lines) THEN acc
    ELSE ReadRows(ReadCols([acc EXCEPT !.tiles = Append(@, <<>>)], row, lines[row + 1], 0),
                  lines, row + 1)

\* ------------------------------------------------------------------------
\* Maze._calculate_blank_tiles
\* ------------------------------------------------------------------------
\* One scan of a line of characters (a row, or a column read top to bottom):
\* the list of (begin, end) parts that start right after a '#' and end at the
\* next '#'; end is exclusive.
RECURSIVE ScanParts(_, _, _, _, _, _)
ScanParts(line, i, begin, end, is_valid_part, parts) ==
    IF i >= Len(line) THEN parts
    ELSE IF line[i + 1] = "#"
         THEN LET parts1 == IF is_valid_part THEN Append(parts, <<begin, end>>) ELSE parts
                  starts == i + 1 < Len(line) /\ line[i + 2] # "#"
              IN  IF starts THEN ScanParts(line, i + 1, i + 1, i + 1, TRUE, parts1)
                  ELSE ScanParts(line, i + 1, begin, end, FALSE, parts1)
         ELSE IF is_valid_part THEN ScanParts(line, i + 1, begin, end + 1, TRUE, parts)
              ELSE ScanParts(line, i + 1, begin, end, FALSE, parts)

horizontal_parts(maze_strings) ==
    [row \in 0..(Len(maze_strings) - 1) |->
        ScanParts(maze_strings[row + 1], 0, 0, 0, FALSE, <<>>)]

ColumnOf(maze_strings, col) == [r \in 1..Len(maze_strings) |-> maze_strings[r][col + 1]]

vertical_parts(maze_strings) ==
    [col \in 0..(MaxLineLen(maze_strings) - 1) |->
        ScanParts(ColumnOf(maze_strings, col), 0, 0, 0, FALSE, <<>>)]

\* i in range(top, bottom) for some (top, bottom) of the parts
InVerticalPart(parts, i) ==
    \E k \in 1..Len(parts) : parts[k][1] <= i /\ i < parts[k][2]

\* The cell (i, j) is set to Tile.BLANK: it lies in a horizontal part of its
\* row whose middle column has a vertical part covering row i.
IsSetBlank(hparts, vparts, i, j) ==
    \E k \in 1..Len(hparts[i]) :
        LET left == hparts[i][k][1]
            right == hparts[i][k][2]
            mid == left + ((right - left) \div 2)
        IN  /\ left <= j /\ j < right
            /\ InVerticalPart(vparts[mid], i)

BlankTilesWith(tls, hparts, vparts) ==
    [r \in 1..Len(tls) |->
        [c \in 1..Len(tls[r]) |->
            IF IsSetBlank(hparts, vparts, r - 1, c - 1) THEN TileBLANK ELSE tls[r][c]]]

\* The two part lists are computed once (bound as values), then intersected.
calculate_blank_tiles(tls, maze_strings) ==
    CHOOSE result \in {BlankTilesWith(tls, hparts, vparts) :
                          hparts \in {horizontal_parts(maze_strings)},
                          vparts \in {vertical_parts(maze_strings)}} : TRUE

\* The whole of read_input on the lines of a file: weights_line is line 1
\* (already split into integers), lines the rest split at newlines.
\* status "ok" is the True return, "invalid" the False return, "IndexError"
\* the exception of pop() on an empty weight list, "ValueError" that of
\* int() on a line 1 without a number, raised before the grid is read.
read_input(weights_line, lines) ==
    LET maze_strings == PadLines(lines)
        start == [agent_position |-> <<>>, stones_weights |-> EmptyMap,
                  switches_states |-> EmptyMap, weights |-> Reverse(weights_line),
                  tiles |-> <<>>, status |-> "ok"]
        acc == ReadRows(start, maze_strings, 0)
    IN  IF weights_line = <<>> THEN [start EXCEPT !.status = "ValueError"]
        ELSE IF acc.status = "ok"
        THEN [acc EXCEPT !.tiles = calculate_blank_tiles(acc.tiles, maze_strings)]
        ELSE acc

\* ------------------------------------------------------------------------
\* State.get_agent_movements
\* ------------------------------------------------------------------------
NoStone == <<>>

\* Fault variant of MovementFor: the check for a second stone behind the
\* pushed one is left out.
MovementForNoStoneCheck(s, m) ==
    LET new_row == s.agent_position[1] + m.vertical
        new_col == s.agent_position[2] + m.horizontal
    IN  IF <<new_row, new_col>> \in DOMAIN s.stones_weights
        THEN << [position |-> <<new_row, new_col>>, action |-> Upper(m.action),
                 new_stone_position |-> <<new_row + m.vertical, new_col + m.horizontal>>] >>
        ELSE << [position |-> <<new_row, new_col>>, action |-> m.action,
                 new_stone_position |-> NoStone] >>

\* Fault variant of MovementFor: the action of a push is not upper-cased.
MovementForLowercase(s, m) ==
    LET new_row == s.agent_position[1] + m.vertical
        new_col == s.agent_position[2] + m.horizontal
        new_stone_row == new_row + m.vertical
        new_stone_col == new_col + m.horizontal
    IN  IF <<new_row, new_col>> \in DOMAIN s.stones_weights
        THEN IF <<new_stone_row, new_stone_col>> \in DOMAIN s.stones_weights
             THEN <<>>
             ELSE << [position |-> <<new_row, new_col>>, action |-> m.action,
                      new_stone_position |-> <<new_stone_row, new_stone_col>>] >>
        ELSE << [position |-> <<new_row, new_col>>, action |-> m.action,
                 new_stone_position |-> NoStone] >>

\* The loop body for one Movement member: the empty list when the push is
\* against another stone (continue), else the one movement appended.
MovementFor(s, m) ==
    LET row == s.agent_position[1]
        col == s.agent_position[2]
        new_row == row + m.vertical
        new_col == col + m.horizontal
        new_stone_row == new_row + m.vertical
        new_stone_col == new_col + m.horizontal
    IN  IF <<new_row, new_col>> \in DOMAIN s.stones_weights
        THEN IF <<new_stone_row, new_stone_col>> \in DOMAIN s.stones_weights
             THEN <<>>
             ELSE << [position |-> <<new_row, new_col>>, action |-> Upper(m.action),
                      new_stone_position |-> <<new_stone_row, new_stone_col>>] >>
        ELSE << [position |-> <<new_row, new_col>>, action |-> m.action,
                 new_stone_position |-> NoStone] >>

\* Fault variant of get_agent_movements: the directions are tried in the
\* order down, up, right, left.
get_agent_movements_reversed(s) ==
    MovementFor(s, Movement[4]) \o MovementFor(s, Movement[3])
        \o MovementFor(s, Movement[2]) \o MovementFor(s, Movement[1])

get_agent_movements(s) ==
    MovementFor(s, Movement[1]) \o MovementFor(s, Movement[2])
        \o MovementFor(s, Movement[3]) \o MovementFor(s, Movement[4])

\* ------------------------------------------------------------------------
\* State.heuristic
\* ------------------------------------------------------------------------
distance_cost(begin, end) == Abs(begin[1] - end[1]) + Abs(begin[2] - end[2])

\* min() of an empty list: raised for the first switch when there is no stone.
heuristic_raises(s) == DOMAIN s.switches_states # {} /\ DOMAIN s.stones_weights = {}

\* Fault variant of heuristic: switches whose flag is set are left out.
heuristic_uncovered_only(s) ==
    LET stones == DOMAIN s.stones_weights
        push_stone_cost(sw) ==
            [st \in stones |-> distance_cost(st, sw) * s.stones_weights[st]]
        move_to_stone_cost(sw) ==
            {distance_cost(s.agent_position, st) + push_stone_cost(sw)[st] : st \in stones}
        per_switch ==
            [sw \in DOMAIN s.switches_states |->
                IF s.switches_states[sw] THEN 0
                ELSE SumOver(push_stone_cost(sw), stones) + MinOf(move_to_stone_cost(sw))]
    IN  SumOver(per_switch, DOMAIN s.switches_states)

heuristic(s) ==
    LET stones == DOMAIN s.stones_weights
        push_stone_cost(sw) ==
            [st \in stones |-> distance_cost(st, sw) * s.stones_weights[st]]
        move_to_stone_cost(sw) ==
            {distance_cost(s.agent_position, st) + push_stone_cost(sw)[st] : st \in stones}
        per_switch ==
            [sw \in DOMAIN s.switches_states |->
                SumOver(push_stone_cost(sw), stones) + MinOf(move_to_stone_cost(sw))]
    IN  SumOver(per_switch, DOMAIN s.switches_states)

\* ------------------------------------------------------------------------
\* Maze._generate_new_states
\* ------------------------------------------------------------------------
\* self._tiles[row][col] under Python indexing; "IndexError" when out of range.
TileAt(tls, row, col) ==
    LET r == PyIndex(row, Len(tls))
    IN  IF r = -1 THEN "IndexError"
        ELSE LET c == PyIndex(col, Len(tls[r + 1]))
             IN  IF c = -1 THEN "IndexError" ELSE tls[r + 1][c + 1]

\* Fault variant of ApplyMovement: the flag of D2 is set without asking
\* whether D2 is a switch, which adds D2 to the switch mapping.
ApplyMovementAddsSwitch(s, mv) ==
    LET D == mv.position
        D2 == mv.new_stone_position
        sw == s.stones_weights
        ss == s.switches_states
    IN  IF D2 = NoStone
        THEN [s EXCEPT !.agent_position = D]
        ELSE [agent_position |-> D,
              stones_weights |->
                  [p \in (DOMAIN sw \ {D}) \cup {D2} |-> IF p = D2 THEN sw[D] ELSE sw[p]],
              switches_states |->
                  [p \in DOMAIN ss \cup {D2} |->
                      IF p = D2 THEN TRUE ELSE IF p = D THEN FALSE ELSE ss[p]]]

\* Fault variant of ApplyMovement: the flag of D is not cleared when the
\* stone leaves a switch.
ApplyMovementKeepsFlag(s, mv) ==
    LET D == mv.position
        D2 == mv.new_stone_position
        sw == s.stones_weights
        ss == s.switches_states
    IN  IF D2 = NoStone
        THEN [s EXCEPT !.agent_position = D]
        ELSE [agent_position |-> D,
              stones_weights |->
                  [p \in (DOMAIN sw \ {D}) \cup {D2} |-> IF p = D2 THEN sw[D] ELSE sw[p]],
              switches_states |->
                  [p \in DOMAIN ss |-> IF p = D2 THEN TRUE ELSE ss[p]]]

\* Fault variant of ApplyMovement: a push writes the flag of every switch
\* anew, True at D2 and False elsewhere.
ApplyMovementResetsFlags(s, mv) ==
    LET D == mv.position
        D2 == mv.new_stone_position
        sw == s.stones_weights
        ss == s.switches_states
    IN  IF D2 = NoStone
        THEN [s EXCEPT !.agent_position = D]
        ELSE [agent_position |-> D,
              stones_weights |->
                  [p \in (DOMAIN sw \ {D}) \cup {D2} |-> IF p = D2 THEN sw[D] ELSE sw[p]],
              switches_states |-> [p \in DOMAIN ss |-> p = D2]]

\* Fault variant of ApplyMovement: the flag of D2 is not set when the stone
\* enters a switch.
ApplyMovementNoCover(s, mv) ==
    LET D == mv.position
        D2 == mv.new_stone_position
        sw == s.stones_weights
        ss == s.switches_states
    IN  IF D2 = NoStone
        THEN [s EXCEPT !.agent_position = D]
        ELSE [agent_position |-> D,
              stones_weights |->
                  [p \in (DOMAIN sw \ {D}) \cup {D2} |-> IF p = D2 THEN sw[D] ELSE sw[p]],
              switches_states |->
                  [p \in DOMAIN ss |-> IF p = D THEN FALSE ELSE ss[p]]]

\* The state a push or plain move produces (the deep copy with its updates).
ApplyMovement(s, mv) ==
    LET D == mv.position
        D2 == mv.new_stone_position
        sw == s.stones_weights
        ss == s.switches_states
    IN  IF D2 = NoStone
        THEN [s EXCEPT !.agent_position = D]
        ELSE [agent_position |-> D,
              stones_weights |->
                  [p \in (DOMAIN sw \ {D}) \cup {D2} |-> IF p = D2 THEN sw[D] ELSE sw[p]],
              switches_states |->
                  [p \in DOMAIN ss |->
                      IF p = D2 THEN TRUE ELSE IF p = D THEN FALSE ELSE ss[p]]]

\* Fault variant of GenerateFor: the wall check of the agent's destination
\* is left out.
GenerateForNoWallCheck(tls, s, current_path, mv) ==
    LET agentTile == TileAt(tls, mv.position[1], mv.position[2])
        stoneTile == TileAt(tls, mv.new_stone_position[1], mv.new_stone_position[2])
    IN  IF agentTile = "IndexError" THEN [kind |-> "raise"]
        ELSE IF mv.new_stone_position # NoStone /\ stoneTile = "IndexError"
             THEN [kind |-> "raise"]
        ELSE IF mv.new_stone_position # NoStone /\ stoneTile = TileBRICK
             THEN [kind |-> "skip"]
        ELSE [kind |-> "new", state |-> ApplyMovement(s, mv),
              path |-> Append(current_path, mv.action)]

\* The loop body for one movement: "skip" for the two continue statements,
\* "raise" for an IndexError of the tile lookups, "new" for an appended state.
GenerateFor(tls, s, current_path, mv) ==
    LET agentTile == TileAt(tls, mv.position[1], mv.position[2])
        stoneTile == TileAt(tls, mv.new_stone_position[1], mv.new_stone_position[2])
    IN  IF agentTile = "IndexError" THEN [kind |-> "raise"]
        ELSE IF agentTile = TileBRICK THEN [kind |-> "skip"]
        ELSE IF mv.new_stone_position # NoStone /\ stoneTile = "IndexError"
             THEN [kind |-> "raise"]
        ELSE IF mv.new_stone_position # NoStone /\ stoneTile = TileBRICK
             THEN [kind |-> "skip"]
        ELSE [kind |-> "new", state |-> ApplyMovement(s, mv),
              path |-> Append(current_path, mv.action)]

RECURSIVE GenerateFrom(_, _, _, _, _)
GenerateFrom(tls, s, current_path, movements, i) ==
    IF i > Len(movements) THEN [raised |-> FALSE, new_states |-> <<>>]
    ELSE LET g == GenerateFor(tls, s, current_path, movements[i])
             rest == GenerateFrom(tls, s, current_path, movements, i + 1)
         IN  IF g.kind = "raise" \/ rest.raised THEN [raised |-> TRUE, new_states |-> <<>>]
             ELSE IF g.kind = "skip" THEN rest
             ELSE [raised |-> FALSE,
                   new_states |-> <<[state |-> g.state, path |-> g.path]>> \o rest.new_states]

\* Fault variant of generate_new_states: the path of a successor holds its
\* own action only, without the path of its parent.
generate_new_states_own_action(tls, current_state, current_path) ==
    GenerateFrom(tls, current_state, <<>>, get_agent_movements(current_state), 1)

generate_new_states(tls, current_state, current_path) ==
    GenerateFrom(tls, current_state, current_path, get_agent_movements(current_state), 1)

\* ------------------------------------------------------------------------
\* copy.deepcopy of a State
\* ------------------------------------------------------------------------
\* Fault variant of deepcopy: copy.copy, whose copy holds the two dicts of
\* the original.
deepcopy_shallow(s) == [copy |-> s, shared |-> {"stones_weights", "switches_states"}]

\* The copy, and the fields whose object the copy shares with the original:
\* none, a deep copy has objects of its own all the way down.
deepcopy(s) == [copy |-> s, shared |-> {}]

\* The State object passed to _generate_new_states as the call leaves it:
\* every new state is written to after being copied from it, and a write
\* reaches the original through the fields the copy shares with it.
RECURSIVE StateLeftBy(_, _, _)
StateLeftBy(current_state, new_states, i) ==
    IF i > Len(new_states) THEN current_state
    ELSE LET shared == deepcopy(current_state).shared
             written == [f \in DOMAIN current_state |->
                            IF f \in shared THEN new_states[i].state[f] ELSE current_state[f]]
         IN  StateLeftBy(written, new_states, i + 1)

\* ------------------------------------------------------------------------
\* Maze._compress_state
\* ------------------------------------------------------------------------
\* The list cell a position indexes.
CellOf(tls, p) == <<PyIndex(p[1], Len(tls)), PyIndex(p[2], Len(tls[PyIndex(p[1], Len(tls)) + 1]))>>

\* The character of cell (r, c) after the three passes: switches, stones,
\* agent. switch_cells, stone_cells and agent_cell are the list cells the
\* positions index (stone_cells maps each stone position to its cell).
CompressChar(tls, switch_cells, stone_cells, agent_cell, r, c) ==
    LET base == TileChar(tls[r + 1][c + 1])
        afterSwitches == IF <<r, c>> \in switch_cells THEN "." ELSE base
        stonesHere == {p \in DOMAIN stone_cells : stone_cells[p] = <<r, c>>}
        afterStones ==
            IF stonesHere = {} THEN afterSwitches
            ELSE IF Cardinality(stonesHere) = 1 /\ afterSwitches = " " THEN "$"
            ELSE "*"
    IN  IF agent_cell = <<r, c>>
        THEN (IF afterStones = " " THEN "@" ELSE "+")
        ELSE afterStones

\* "".join(line)
RECURSIVE JoinChars(_, _)
JoinChars(line, i) ==
    IF i > Len(line) THEN "" ELSE line[i] \o JoinChars(line, i + 1)

\* '\n'.join(...)
RECURSIVE JoinLines(_, _)
JoinLines(lines, i) ==
    IF i > Len(lines) THEN ""
    ELSE IF i = Len(lines) THEN lines[i]
    ELSE lines[i] \o "\n" \o JoinLines(lines, i + 1)

CompressWith(tls, switch_cells, stone_cells, agent_cell) ==
    JoinLines([r \in 1..Len(tls) |->
                  JoinChars([c \in 1..Len(tls[r]) |->
                                CompressChar(tls, switch_cells, stone_cells, agent_cell,
                                             r - 1, c - 1)], 1)], 1)

\* Fault variant of compress_state: the agent is not drawn.
compress_state_no_agent(tls, s) ==
    CHOOSE key \in
        {CompressWith(tls, switch_cells, stone_cells, <<-1, -1>>) :
            switch_cells \in {{CellOf(tls, p) : p \in DOMAIN s.switches_states}},
            stone_cells \in {[p \in DOMAIN s.stones_weights |-> CellOf(tls, p)]}} : TRUE

compress_state(tls, s) ==
    CHOOSE key \in
        {CompressWith(tls, switch_cells, stone_cells, agent_cell) :
            switch_cells \in {{CellOf(tls, p) : p \in DOMAIN s.switches_states}},
            stone_cells \in {[p \in DOMAIN s.stones_weights |-> CellOf(tls, p)]},
            agent_cell \in {CellOf(tls, s.agent_position)}} : TRUE

\* ------------------------------------------------------------------------
\* heapq on (cost, state, path) tuples
\* ------------------------------------------------------------------------
\* a < b for two heap entries of distinct State objects: the costs decide
\* unless equal, then State.__lt__ compares the heuristics, which raises
\* ValueError when heuristic does. "T", "F" or "E" (raised).
EntryLt(a, b) ==
    IF a.cost # b.cost THEN (IF a.cost < b.cost THEN "T" ELSE "F")
    ELSE IF heuristic_raises(a.state) \/ heuristic_raises(b.state) THEN "E"
    ELSE IF heuristic(a.state) < heuristic(b.state) THEN "T" ELSE "F"

\* heapq._siftdown: positions are 0-based list indices.
RECURSIVE SiftDown(_, _, _, _)
SiftDown(heap, startpos, pos, newitem) ==
    IF pos > startpos
    THEN LET parentpos == (pos - 1) \div 2
             parent == heap[parentpos + 1]
             lt == EntryLt(newitem, parent)
         IN  IF lt = "E" THEN [raised |-> TRUE, heap |-> heap]
             ELSE IF lt = "T"
                  THEN SiftDown([heap EXCEPT ![pos + 1] = parent], startpos, parentpos, newitem)
                  ELSE [raised |-> FALSE, heap |-> [heap EXCEPT ![pos + 1] = newitem]]
    ELSE [raised |-> FALSE, heap |-> [heap EXCEPT ![pos + 1] = newitem]]

\* heapq._siftup
RECURSIVE SiftUp(_, _, _, _)
SiftUp(heap, startpos, pos, newitem) ==
    LET endpos == Len(heap)
        childpos == 2 * pos + 1
        rightpos == childpos + 1
        lt == IF rightpos < endpos THEN EntryLt(heap[childpos + 1], heap[rightpos + 1]) ELSE "T"
        chosen == IF lt = "F" THEN rightpos ELSE childpos
    IN  IF childpos < endpos
        THEN IF lt = "E" THEN [raised |-> TRUE, heap |-> heap]
             ELSE SiftUp([heap EXCEPT ![pos + 1] = heap[chosen + 1]], startpos, chosen, newitem)
        ELSE SiftDown([heap EXCEPT ![pos + 1] = newitem], startpos, pos, newitem)

heappush(heap, item) == SiftDown(Append(heap, item), 0, Len(heap), item)

\* Fault variant of heappop: the last item of the list is taken instead of
\* the root.
heappop_last(heap) ==
    [raised |-> FALSE, item |-> heap[Len(heap)], heap |-> SubSeq(heap, 1, Len(heap) - 1)]

\* heappop of a non-empty heap: the item returned and the heap left.
heappop(heap) ==
    LET lastelt == heap[Len(heap)]
        shorter == SubSeq(heap, 1, Len(heap) - 1)
        sifted == SiftUp([shorter EXCEPT ![1] = lastelt], 0, 0, lastelt)
    IN  IF shorter = <<>> THEN [raised |-> FALSE, item |-> lastelt, heap |-> <<>>]
        ELSE [raised |-> sifted.raised, item |-> heap[1], heap |-> sifted.heap]

\* ------------------------------------------------------------------------
\* The loop body shared by the four searches
\* ------------------------------------------------------------------------
\* Fault variant of FilterNew: every new state counts as new, whether or not
\* its key is visited.
FilterNewNoCheck(tls, vis, new_states, i) ==
    [visited |-> vis \cup {compress_state(tls, new_states[k].state) : k \in 1..Len(new_states)},
     fresh |-> new_states]

\* The new states whose key is not yet visited, in order, each key being
\* added as it is met: len(visited) != (visited.add(key) or len(visited)).
RECURSIVE FilterNew(_, _, _, _)
FilterNew(tls, vis, new_states, i) ==
    IF i > Len(new_states) THEN [visited |-> vis, fresh |-> <<>>]
    ELSE LET key == compress_state(tls, new_states[i].state)
             rest == FilterNew(tls, vis \cup {key}, new_states, i + 1)
         IN  IF key \in vis THEN rest
             ELSE [visited |-> rest.visited, fresh |-> <<new_states[i]>> \o rest.fresh]

\* heappush of every fresh state with the given priority
RECURSIVE PushAll(_, _, _, _)
PushAll(heap, cost, fresh, i) ==
    IF i > Len(fresh) THEN [raised |-> FALSE, heap |-> heap]
    ELSE LET pushed == heappush(heap, [cost |-> cost, state |-> fresh[i].state,
                                       path |-> fresh[i].path])
         IN  IF pushed.raised THEN pushed ELSE PushAll(pushed.heap, cost, fresh, i + 1)

\* ------------------------------------------------------------------------
\* Input files
\* ------------------------------------------------------------------------
\* Wall layouts: '#' wall, ' ' blank, '_' a blank on which the agent, a stone
\* or a switch may stand. Lines may be ragged.
Layouts == {
    \* a closed room of 2 x 3 cells
    << <<"#", "#", "#", "#", "#">>,
       <<"#", "_", "_", "_", "#">>,
       <<"#", "_", "_", "_", "#">>,
       <<"#", "#", "#", "#", "#">> >>,
    \* a room of 2 x 2 cells whose bottom wall has a hole; the last line is short
    << <<"#", "#", "#", "#">>,
       <<"#", "_", "_", "#">>,
       <<"#", "_", "_", "#">>,
       <<"#", " ", "#">> >>,
    \* a corridor with a hole above and below the same cell
    << <<"#", " ", "#", "#">>,
       <<"#", "_", "_", "#">>,
       <<"#", " ", "#", "#">> >>,
    \* a closed room of 3 x 3 cells, pieces on its middle row
    << <<"#", "#", "#", "#", "#">>,
       <<"#", " ", " ", " ", "#">>,
       <<"#", "_", "_", "_", "#">>,
       <<"#", " ", " ", " ", "#">>,
       <<"#", "#", "#", "#", "#">> >>,
    \* the same room, pieces on its middle column
    << <<"#", "#", "#", "#", "#">>,
       <<"#", " ", "_", " ", "#">>,
       <<"#", " ", "_", " ", "#">>,
       <<"#", " ", "_", " ", "#">>,
       <<"#", "#", "#", "#", "#">> >>,
    \* a corridor of 3 cells, and a stone with a wall on each of its four sides
    << <<"#", "#", "#", "#", "#", "#">>,
       <<"#", "_", " ", "_", "#", "#">>,
       <<"#", "#", "#", "#", "$", "#">>,
       <<"#", "#", "#", "#", "#", "#">> >>,
    \* a room of 2 x 2 cells whose bottom wall has a hole under its right column
    << <<"#", "#", "#", "#">>,
       <<"#", "_", "_", "#">>,
       <<"#", " ", " ", "#">>,
       <<"#", "#", " ", "#">> >>,
    \* a corridor that holds a character no map may hold
    << <<"#", "#", "#", "#", "#">>,
       <<"#", "_", "_", "x", "#">>,
       <<"#", "#", "#", "#", "#">> >> }

Placeable(layout) ==
    {p \in (0..(Len(layout) - 1)) \X (0..(MaxLineLen(layout) - 1)) :
        p[2] < Len(layout[p[1] + 1]) /\ layout[p[1] + 1][p[2] + 1] = "_"}

UpTo(S, k) == {X \in SUBSET S : Cardinality(X) <= k}

\* The number of stones a layout holds by itself.
FixedStones(layout) ==
    Cardinality({p \in (0..(Len(layout) - 1)) \X (0..(MaxLineLen(layout) - 1)) :
                    p[2] < Len(layout[p[1] + 1]) /\ layout[p[1] + 1][p[2] + 1] \in {"$", "*"}})

\* The grid lines of the file with the agent, stones and switches placed.
GridLines(layout, agent, stones, switches) ==
    [r \in 1..Len(layout) |->
        [c \in 1..Len(layout[r]) |->
            LET p == <<r - 1, c - 1>>
            IN  IF layout[r][c] # "_" THEN layout[r][c]
                ELSE IF p = agent /\ p \in switches THEN "+"
                ELSE IF p = agent THEN "@"
                ELSE IF p \in stones /\ p \in switches THEN "*"
                ELSE IF p \in stones THEN "$"
                ELSE IF p \in switches THEN "."
                ELSE " "]]

\* Line 1 of the file for n stones: all weights 1, or weights n+1 down to 2.
\* The line holds at least one integer (int('') raises in the reader), so a
\* file without stones carries one weight that no stone takes.
WeightLines(n) ==
    IF n = 0 THEN {<<1>>} ELSE {[i \in 1..n |-> 1], [i \in 1..n |-> n + 2 - i]}

\* Line 1 with one weight less than the n stones of the grid; for one stone
\* this is the empty line.
ShortWeightLines(n) == IF n = 0 THEN {} ELSE {[i \in 1..(n - 1) |-> 1]}

\* ------------------------------------------------------------------------
\* Game and the buttons of MainGui, as their constructors leave them
\* ------------------------------------------------------------------------
\* The result of the latest finished call of each search, none so far.
NoResult == [pc |-> "none", error |-> "none", path |-> <<>>, nodes_count |-> 0]

NoResults == [alg \in {"DFS", "BFS", "UFC", "A_STAR"} |-> NoResult]

\* The control fields of Game.__init__. None is <<>> for a position and
\* "None" for the action; stones_images_positions is kept by its keys, the
\* cells of the stone images (_stones_weights_labels has the same keys).
NewGame ==
    [is_animating |-> FALSE, finished_animating |-> FALSE, animation_time |-> 0,
     movement_index |-> 0, movement |-> <<0, 0>>, action |-> "None",
     agent_position |-> <<>>, stones_images_positions |-> {}]

ButtonIds == <<"start", "pause_resume", "reset", "search">>

\* The four PushButton objects of MainGui.__init__: mode, state, text and
\* the two constructor flags.
NewButtons ==
    [b \in {ButtonIds[i] : i \in 1..4} |->
        [mode |-> IF b = "search" THEN "idle" ELSE "disabled",
         state |-> FALSE,
         text |-> CASE b = "start" -> "Start" [] b = "pause_resume" -> "Pause"
                    [] b = "reset" -> "Reset" [] OTHER -> "",
         is_instant |-> b = "start",
         is_latching |-> b = "pause_resume"]]

\* ------------------------------------------------------------------------
\* Initial state: Maze.__init__
\* ------------------------------------------------------------------------
Init ==
    /\ pc = "Constructed"
    /\ algorithm = "NONE"
    /\ tiles = <<>>
    /\ size = <<0, 0>>
    /\ state = NewState
    /\ frontier = <<>>
    /\ visited = {}
    /\ nodes_count = 0
    /\ path = <<>>
    /\ error = "none"
    /\ first_line = <<>>
    /\ maze_strings_list = <<>>
    /\ results = NoResults
    /\ game = NewGame
    /\ buttons = NewButtons
    /\ pending_tasks = 0
    /\ gui_pc = "None"

\* Maze.read_input on the file with the given first line and grid lines
ReadFile(weights_line, lines) ==
    \E res \in {read_input(weights_line, lines)} :
        /\ tiles' = res.tiles
        /\ state' = [agent_position |-> res.agent_position,
                     stones_weights |-> res.stones_weights,
                     switches_states |-> res.switches_states]
        /\ size' = IF res.status = "ok"
                   THEN <<Len(res.tiles), MaxLineLen(lines)>> ELSE size
        /\ pc' = IF res.status = "ok" THEN "Ready" ELSE "ReadFailed"
        /\ error' = IF res.status \in {"IndexError", "ValueError"} THEN res.status
                    ELSE error
        /\ first_line' = weights_line
        /\ maze_strings_list' = IF res.status = "ValueError" THEN <<>> ELSE lines

\* Maze.read_input on one of the input files built from the layouts
ReadInput ==
    /\ pc = "Constructed"
    /\ \E layout \in Layouts :
       \E agent \in Placeable(layout) :
       \E stones \in UpTo(Placeable(layout) \ {agent}, MaxStones - FixedStones(layout)) :
       \E switches \in UpTo(Placeable(layout) \ {agent}, MaxSwitches) :
       \E weights_line \in WeightLines(Cardinality(stones) + FixedStones(layout))
                               \cup ShortWeightLines(Cardinality(stones) + FixedStones(layout)) :
          ReadFile(weights_line, GridLines(layout, agent, stones, switches))
    /\ UNCHANGED <<algorithm, frontier, visited, nodes_count, path, results, gui_vars>>

\* ------------------------------------------------------------------------
\* The four searches, one action per loop iteration
\* ------------------------------------------------------------------------
\* Fault variant of BeginSearch: the visited set starts empty.
BeginSearchNothingVisited(alg, first) ==
    /\ pc = "Ready"
    /\ algorithm' = alg
    /\ visited' = {}
    /\ frontier' = <<first>>
    /\ nodes_count' = 0
    /\ pc' = "Expanding"
    /\ UNCHANGED <<tiles, size, state, path, error, first_line, maze_strings_list,
                   results, gui_vars>>

\* The lines before the loop: the visited set holds the key of the initial
\* state, the counter is reset, the frontier holds the initial state.
BeginSearch(alg, first) ==
    /\ pc = "Ready"
    /\ algorithm' = alg
    /\ visited' = {compress_state(tiles, state)}
    /\ frontier' = <<first>>
    /\ nodes_count' = 0
    /\ pc' = "Expanding"
    /\ UNCHANGED <<tiles, size, state, path, error, first_line, maze_strings_list,
                   results, gui_vars>>

\* return True with the path of the finished entry
ReturnTrue(entry, rest) ==
    /\ path' = entry.path
    /\ frontier' = rest
    /\ pc' = "Solved"
    /\ UNCHANGED <<visited, error, state>>

\* An exception leaves the search: its locals are gone.
Raise(kind) ==
    /\ pc' = "Error"
    /\ error' = kind
    /\ frontier' = <<>>
    /\ visited' = {}
    /\ UNCHANGED <<path, state>>

\* self._state after the expansion of current_state: the first entry a
\* search removes holds self._state itself, every later one a copy.
InitialStateLeft(current_state, new_states) ==
    IF nodes_count = 0 THEN StateLeftBy(current_state, new_states, 1) ELSE state

\* The loop goes on with the new frontier, or ends with return False;
\* left_state is self._state as the expansion leaves it.
Continue(new_visited, new_frontier, left_state) ==
    /\ visited' = new_visited
    /\ frontier' = new_frontier
    /\ state' = left_state
    /\ pc' = IF new_frontier = <<>> THEN "Exhausted" ELSE "Expanding"
    /\ UNCHANGED <<path, error>>

DfsStart == BeginSearch("DFS", [state |-> state, path |-> <<>>])

\* Fault variant of pop: the oldest entry of the stack is taken.
pop_first(stack) == [item |-> stack[1], rest |-> Tail(stack)]

\* stack.pop(): the last entry of the list and the list left.
pop(stack) == [item |-> stack[Len(stack)], rest |-> SubSeq(stack, 1, Len(stack) - 1)]

DfsIter ==
    /\ pc = "Expanding" /\ algorithm = "DFS"
    /\ nodes_count' = nodes_count + 1
    /\ \E entry \in {pop(frontier).item} :
       \E rest \in {pop(frontier).rest} :
          IF is_finished(entry.state) THEN ReturnTrue(entry, rest)
          ELSE \E gen \in {generate_new_states(tiles, entry.state, entry.path)} :
                  IF gen.raised THEN Raise("IndexError")
                  ELSE \E new \in {FilterNew(tiles, visited, gen.new_states, 1)} :
                          Continue(new.visited, rest \o new.fresh,
                                   InitialStateLeft(entry.state, gen.new_states))
    /\ UNCHANGED <<algorithm, tiles, size, first_line, maze_strings_list, results, gui_vars>>

BfsStart == BeginSearch("BFS", [state |-> state, path |-> <<>>])

\* Fault variant of popleft: the newest entry of the queue is taken.
popleft_newest(dequeue) ==
    [item |-> dequeue[Len(dequeue)], rest |-> SubSeq(dequeue, 1, Len(dequeue) - 1)]

\* dequeue.popleft(): the first entry of the deque and the deque left.
popleft(dequeue) == [item |-> dequeue[1], rest |-> Tail(dequeue)]

BfsIter ==
    /\ pc = "Expanding" /\ algorithm = "BFS"
    /\ nodes_count' = nodes_count + 1
    /\ \E entry \in {popleft(frontier).item} :
       \E rest \in {popleft(frontier).rest} :
          IF is_finished(entry.state) THEN ReturnTrue(entry, rest)
          ELSE \E gen \in {generate_new_states(tiles, entry.state, entry.path)} :
                  IF gen.raised THEN Raise("IndexError")
                  ELSE \E new \in {FilterNew(tiles, visited, gen.new_states, 1)} :
                          Continue(new.visited, rest \o new.fresh,
                                   InitialStateLeft(entry.state, gen.new_states))
    /\ UNCHANGED <<algorithm, tiles, size, first_line, maze_strings_list, results, gui_vars>>

\* Fault variant of UcsPriority: the step cost is not added.
UcsPriorityNoStep(current_cost) == current_cost

\* The priority of a successor pushed by uniform_cost_search
UcsPriority(current_cost) == current_cost + 1

UcsStart == BeginSearch("UFC", [cost |-> 0, state |-> state, path |-> <<>>])

UcsIter ==
    /\ pc = "Expanding" /\ algorithm = "UFC"
    /\ nodes_count' = nodes_count + 1
    /\ \E popped \in {heappop(frontier)} :
          IF popped.raised THEN Raise("ValueError")
          ELSE IF is_finished(popped.item.state) THEN ReturnTrue(popped.item, popped.heap)
          ELSE \E gen \in {generate_new_states(tiles, popped.item.state, popped.item.path)} :
                  IF gen.raised THEN Raise("IndexError")
                  ELSE \E new \in {FilterNew(tiles, visited, gen.new_states, 1)} :
                       \E pushed \in {PushAll(popped.heap, UcsPriority(popped.item.cost),
                                                   new.fresh, 1)} :
                          IF pushed.raised THEN Raise("ValueError")
                          ELSE Continue(new.visited, pushed.heap,
                                        InitialStateLeft(popped.item.state, gen.new_states))
    /\ UNCHANGED <<algorithm, tiles, size, first_line, maze_strings_list, results, gui_vars>>

\* Fault variant of AStarPriority: the heuristic of the successor's parent
\* is replaced by a unit step.
AStarPriorityUnitStep(current_cost, current_state) == current_cost + 1

\* The priority of a successor pushed by a_star_search
AStarPriority(current_cost, current_state) == current_cost + heuristic(current_state)

AStarStart == BeginSearch("A_STAR", [cost |-> 0, state |-> state, path |-> <<>>])

AStarIter ==
    /\ pc = "Expanding" /\ algorithm = "A_STAR"
    /\ nodes_count' = nodes_count + 1
    /\ \E popped \in {heappop(frontier)} :
          IF popped.raised THEN Raise("ValueError")
          ELSE IF is_finished(popped.item.state) THEN ReturnTrue(popped.item, popped.heap)
          ELSE \E gen \in {generate_new_states(tiles, popped.item.state, popped.item.path)} :
                  IF gen.raised THEN Raise("IndexError")
                  ELSE \E new \in {FilterNew(tiles, visited, gen.new_states, 1)} :
                          IF new.fresh = <<>>
                          THEN Continue(new.visited, popped.heap,
                                        InitialStateLeft(popped.item.state, gen.new_states))
                          ELSE IF heuristic_raises(popped.item.state) THEN Raise("ValueError")
                          ELSE \E pushed \in {PushAll(popped.heap,
                                                      AStarPriority(popped.item.cost,
                                                                    popped.item.state),
                                                      new.fresh, 1)} :
                                  IF pushed.raised THEN Raise("ValueError")
                                  ELSE Continue(new.visited, pushed.heap,
                                                InitialStateLeft(popped.item.state,
                                                                 gen.new_states))
    /\ UNCHANGED <<algorithm, tiles, size, first_line, maze_strings_list, results, gui_vars>>

Next ==
    \/ ReadInput
    \/ DfsStart \/ DfsIter
    \/ BfsStart \/ BfsIter
    \/ UcsStart \/ UcsIter
    \/ AStarStart \/ AStarIter

Spec == Init /\ [][Next]_vars

\* ------------------------------------------------------------------------
\* One Maze searched again and again
\* ------------------------------------------------------------------------
\* Layouts of the files read when a Maze is searched more than once: a
\* closed room of 3 x 3 cells with the pieces on its diagonal, and of the
\* layouts above the corridor with the walled-in stone and the corridor with
\* holes in its walls.
RerunLayouts ==
    { << <<"#", "#", "#", "#", "#">>,
         <<"#", "_", " ", " ", "#">>,
         <<"#", " ", "_", " ", "#">>,
         <<"#", " ", " ", "_", "#">>,
         <<"#", "#", "#", "#", "#">> >> }
    \cup {layout \in Layouts :
             /\ Cardinality(Placeable(layout)) <= 2
             /\ \A r \in 1..Len(layout) : \A c \in 1..Len(layout[r]) : layout[r][c] # "x"}

\* Maze.read_input on a file in which the agent may stand on a switch ('+')
ReadInputForReruns ==
    /\ pc = "Constructed"
    /\ \E layout \in RerunLayouts :
       \E agent \in Placeable(layout) :
       \E stones \in UpTo(Placeable(layout) \ {agent}, MaxStones - FixedStones(layout)) :
       \E switches \in UpTo(Placeable(layout), MaxSwitches) :
       \E weights_line \in WeightLines(Cardinality(stones) + FixedStones(layout)) :
          ReadFile(weights_line, GridLines(layout, agent, stones, switches))
    /\ UNCHANGED <<algorithm, frontier, visited, nodes_count, path, results, gui_vars>>

\* The first frontier entry of a search: (self._state, ""), with priority 0
\* in the two heap searches.
FirstEntry(alg) ==
    IF alg \in {"DFS", "BFS"} THEN [state |-> state, path |-> <<>>]
    ELSE [cost |-> 0, state |-> state, path |-> <<>>]

\* What the call that has just ended leaves to its caller: how it ended and
\* the path and node counter of the Maze.
Outcome == [pc |-> pc, error |-> error, path |-> path, nodes_count |-> nodes_count]

\* Fault variant of SearchAgain: the visited set of the call before is kept.
SearchAgainVisitedKept(alg) ==
    /\ pc \in {"Solved", "Exhausted", "Error"}
    /\ results' = [results EXCEPT ![algorithm] = Outcome]
    /\ algorithm' = alg
    /\ visited' = visited \cup {compress_state(tiles, state)}
    /\ frontier' = <<FirstEntry(alg)>>
    /\ nodes_count' = 0
    /\ error' = "none"
    /\ pc' = "Expanding"
    /\ UNCHANGED <<tiles, size, state, path, first_line, maze_strings_list, gui_vars>>

\* The lines before the loop, for a search called on a Maze on which a search
\* has ended before; the result of that call is kept in results.
SearchAgain(alg) ==
    /\ pc \in {"Solved", "Exhausted", "Error"}
    /\ results' = [results EXCEPT ![algorithm] = Outcome]
    /\ algorithm' = alg
    /\ visited' = {compress_state(tiles, state)}
    /\ frontier' = <<FirstEntry(alg)>>
    /\ nodes_count' = 0
    /\ error' = "none"
    /\ pc' = "Expanding"
    /\ UNCHANGED <<tiles, size, state, path, first_line, maze_strings_list, gui_vars>>

DfsAgain == SearchAgain("DFS")

BfsAgain == SearchAgain("BFS")

UcsAgain == SearchAgain("UFC")

AStarAgain == SearchAgain("A_STAR")

RerunNext ==
    \/ ReadInputForReruns
    \/ DfsStart \/ DfsAgain \/ DfsIter
    \/ BfsStart \/ BfsAgain \/ BfsIter
    \/ UcsStart \/ UcsAgain \/ UcsIter
    \/ AStarStart \/ AStarAgain \/ AStarIter

RerunSpec == Init /\ [][RerunNext]_vars

\* One loop iteration, seen from outside: the node counter goes up.
LoopIteration == pc = "Expanding" /\ nodes_count' = nodes_count + 1

\* A search that has begun runs on until it returns or raises: it is one
\* synchronous call, so its loop is never left waiting. This is weak
\* fairness of the loop iteration, WF_vars(LoopIteration), written out with
\* the state predicate that says when an iteration is enabled.
FairSpec == Spec /\ ([]<>(pc # "Expanding") \/ []<><<LoopIteration>>_vars)

\* ------------------------------------------------------------------------
\* Notions the properties are stated with
\* ------------------------------------------------------------------------
Searching == pc \in {"Expanding", "Solved", "Exhausted"}

\* The frontier entry the next loop iteration removes, when it can be told
\* without running the removal (the top of the stack, the head of the queue,
\* the root of the heap).
NextEntry == IF algorithm = "DFS" THEN frontier[Len(frontier)] ELSE frontier[1]

\* The successors the next loop iteration generates, with their parent
\* state; the empty list when the loop has ended or the next entry is
\* finished or the generator raises.
Generated ==
    IF pc # "Expanding" \/ is_finished(NextEntry.state) THEN <<>>
    ELSE generate_new_states(tiles, NextEntry.state, NextEntry.path).new_states

\* The direction a path letter names.
DirectionOf(letter) ==
    CASE letter \in {"l", "L"} -> Movement[1]
      [] letter \in {"r", "R"} -> Movement[2]
      [] letter \in {"u", "U"} -> Movement[3]
      [] letter \in {"d", "D"} -> Movement[4]

IsPushLetter(letter) == letter \in {"L", "R", "U", "D"}

Last(seq) == seq[Len(seq)]

InGrid(tls, p) ==
    /\ 0 <= p[1] /\ p[1] < Len(tls)
    /\ 0 <= p[2] /\ p[2] < Len(tls[p[1] + 1])

Neighbours(p) == {<<p[1] + Movement[i].vertical, p[2] + Movement[i].horizontal>> : i \in 1..4}

\* Every switch position holds a stone.
EverySwitchCovered(s) ==
    /\ \A p \in DOMAIN s.switches_states : s.switches_states[p] = TRUE
    /\ \A p \in DOMAIN s.switches_states : p \in DOMAIN s.stones_weights

\* The cells the agent can walk to from cell p when stones are ignored:
\* non-wall cells of the grid connected to p.
RECURSIVE WalkRegion(_, _, _)
WalkRegion(tls, border, seen) ==
    LET more == {q \in UNION {Neighbours(p) : p \in border} :
                    InGrid(tls, q) /\ tls[q[1] + 1][q[2] + 1] # TileBRICK} \ seen
    IN  IF more = {} THEN seen ELSE WalkRegion(tls, more, seen \cup more)

\* The region the agent starts in is wall-enclosed: no cell of it lies on
\* the edge of the grid, so every neighbour of a region cell is a grid cell.
WallEnclosed(tls, s) ==
    \A p \in WalkRegion(tls, {s.agent_position}, {s.agent_position}) :
        \A q \in Neighbours(p) : InGrid(tls, q)

\* Successor states of s under the move generator (a raise gives none).
SuccessorStates(tls, s) ==
    LET gen == generate_new_states(tls, s, <<>>).new_states
    IN  {gen[i].state : i \in 1..Len(gen)}

\* Least number of legal moves from the states of layer `border` (all at
\* distance `depth` from the start) to a finished state; -1 when no finished
\* state can be reached.
RECURSIVE StepsToFinish(_, _, _, _)
StepsToFinish(tls, border, seen, depth) ==
    IF \E t \in border : is_finished(t) THEN depth
    ELSE LET more == UNION {SuccessorStates(tls, t) : t \in border} \ seen
         IN  IF more = {} THEN -1
             ELSE StepsToFinish(tls, more, seen \cup more, depth + 1)

ShortestSolution(tls, s) == StepsToFinish(tls, {s}, {s}, 0)

Solvable(tls, s) == ShortestSolution(tls, s) >= 0

\* Replaying a path letter by letter with the move generator: the state
\* reached, and whether every letter was the action of a successor.
RECURSIVE Replay(_, _, _, _)
Replay(tls, s, letters, i) ==
    IF i > Len(letters) THEN [legal |-> TRUE, state |-> s]
    ELSE LET gen == generate_new_states(tls, s, <<>>)
             hits == {k \in 1..Len(gen.new_states) : gen.new_states[k].path = <<letters[i]>>}
         IN  IF gen.raised \/ hits = {} THEN [legal |-> FALSE, state |-> s]
             ELSE Replay(tls, gen.new_states[CHOOSE k \in hits : TRUE].state, letters, i + 1)

\* ------------------------------------------------------------------------
\* Game (core.py): the animation of the found path
\* ------------------------------------------------------------------------
\* Time is counted in units of 0.4 s: AnimationSpeed.MEDIUM, the speed
\* Game.__init__ sets, is 0.8 s for one path letter.
animation_speed == 2

\* The time a frame hands to update: less than the speed, or the speed.
TimeDeltas == {1, 2}

\* Game._initialize_objects: one stone image for every stone of the state
\* of the maze.
initialize_objects(g) ==
    [g EXCEPT !.stones_images_positions = DOMAIN state.stones_weights]

\* Game._calculate_movement for the letter at self._movement_index: the
\* (horizontal, vertical) pair; any letter but l, r, u falls to DOWN.
calculate_movement(action) ==
    CASE action \in {"l", "L"} -> <<Movement[1].horizontal, Movement[1].vertical>>
      [] action \in {"r", "R"} -> <<Movement[2].horizontal, Movement[2].vertical>>
      [] action \in {"u", "U"} -> <<Movement[3].horizontal, Movement[3].vertical>>
      [] OTHER -> <<Movement[4].horizontal, Movement[4].vertical>>

\* (row + vertical * k, col + horizontal * k)
Moved(position, movement, k) ==
    <<position[1] + movement[2] * k, position[2] + movement[1] * k>>

\* str.isupper of a path letter
isupper(action) == action \in {"L", "R", "U", "D"}

\* Game.start_animation; self._maze.path[0] raises IndexError on an empty
\* path, after the first three assignments.
start_animation(g) ==
    LET begun == [g EXCEPT !.is_animating = TRUE, !.animation_time = 0,
                           !.movement_index = 0]
    IN  IF path = <<>> THEN [raised |-> TRUE, game |-> begun]
        ELSE [raised |-> FALSE,
              game |-> [begun EXCEPT
                           !.movement = calculate_movement(path[1]),
                           !.action = path[1],
                           !.agent_position =
                               Moved(state.agent_position, calculate_movement(path[1]), 1)]]

\* Game.pause_resume_animation
pause_resume_animation(g) == [g EXCEPT !.is_animating = ~g.is_animating]

\* Game.reset_animation
reset_animation(g) ==
    initialize_objects([g EXCEPT !.is_animating = FALSE, !.finished_animating = FALSE])

\* The end of Game.update, "Update images positions": during a push the
\* image of the stone is looked up at the cell ahead of _agent_position,
\* KeyError if no image has that key.
UpdateImagesPositions(g) ==
    IF isupper(g.action)
       /\ Moved(g.agent_position, g.movement, 1) \notin g.stones_images_positions
    THEN [raised |-> TRUE, game |-> g]
    ELSE [raised |-> FALSE, game |-> g]

\* Game.update(time_delta)
update(g, time_delta) ==
    IF ~g.is_animating THEN [raised |-> FALSE, game |-> g]
    ELSE IF g.animation_time + time_delta < animation_speed
    THEN UpdateImagesPositions([g EXCEPT !.animation_time = @ + time_delta])
    ELSE IF g.movement_index + 1 >= Len(path)
    THEN [raised |-> FALSE,
          game |-> [g EXCEPT !.animation_time = 0, !.movement_index = @ + 1,
                             !.is_animating = FALSE, !.finished_animating = TRUE]]
    ELSE LET action == path[g.movement_index + 2]
             movement == calculate_movement(action)
             tile == [g EXCEPT !.animation_time = 0, !.movement_index = @ + 1,
                               !.movement = movement, !.action = action,
                               !.agent_position = Moved(g.agent_position, movement, 1)]
         IN  IF ~isupper(action) THEN UpdateImagesPositions(tile)
             ELSE IF tile.agent_position \notin g.stones_images_positions
             THEN [raised |-> TRUE, game |-> tile]
             ELSE UpdateImagesPositions(
                      [tile EXCEPT !.stones_images_positions =
                          (@ \ {tile.agent_position})
                              \cup {Moved(g.agent_position, movement, 2)}])

\* ------------------------------------------------------------------------
\* PushButton (elements/button.py)
\* ------------------------------------------------------------------------
\* Button.set_mode(is_enabled)
set_mode(button, is_enabled) ==
    [button EXCEPT !.mode = IF is_enabled THEN "idle" ELSE "disabled"]

\* Button.update: the hover of an enabled button follows the mouse.
ButtonUpdate(button, collides) ==
    IF button.mode = "disabled" THEN button
    ELSE IF collides
    THEN (IF button.mode = "idle" THEN [button EXCEPT !.mode = "hovered"] ELSE button)
    ELSE (IF button.mode = "hovered" THEN [button EXCEPT !.mode = "idle"] ELSE button)

\* PushButton.process_event for a left mouse button event, collides telling
\* whether event.pos is inside the button: the button after it, and whether
\* the event was consumed.
process_event(button, type, collides) ==
    IF button.mode = "disabled" THEN [button |-> button, consumed |-> FALSE]
    ELSE IF type = "MOUSEBUTTONDOWN"
    THEN IF ~collides THEN [button |-> button, consumed |-> FALSE]
         ELSE IF button.is_instant
         THEN [button |-> [button EXCEPT
                              !.state = ~button.state,
                              !.mode = IF button.is_latching /\ button.state
                                       THEN "idle" ELSE "pressed"],
               consumed |-> TRUE]
         ELSE [button |-> [button EXCEPT !.mode = "pending"], consumed |-> FALSE]
    ELSE LET invoked == button.mode = "pending" /\ collides
             new_state == IF invoked THEN ~button.state ELSE button.state
         IN  [button |-> [button EXCEPT
                             !.state = new_state,
                             !.mode = IF button.is_latching /\ new_state
                                      THEN "pressed" ELSE "idle"],
              consumed |-> invoked]

\* ------------------------------------------------------------------------
\* MainGui (main.py): construction, events and frames
\* ------------------------------------------------------------------------
\* Where a mouse event or the mouse pointer can be: on one of the four
\* buttons, or elsewhere in the window.
MousePositions == {ButtonIds[i] : i \in 1..Len(ButtonIds)} \cup {"elsewhere"}

\* The layout of the input files the window is opened on: a corridor of
\* four cells, pieces on the first, the third and the fourth.
GuiLayouts ==
    { << <<"#", "#", "#", "#", "#", "#">>,
         <<"#", "_", " ", "_", "_", "#">>,
         <<"#", "#", "#", "#", "#", "#">> >> }

\* MainGui.__init__: the buttons as built, then Game(input_file), which
\* reads the file and makes the stone images of the state read.
MainGuiInit ==
    /\ gui_pc = "None"
    /\ pc = "Constructed"
    /\ \E layout \in GuiLayouts :
       \E agent \in Placeable(layout) :
       \E stones \in UpTo(Placeable(layout) \ {agent}, MaxStones - FixedStones(layout)) :
       \E switches \in UpTo(Placeable(layout) \ {agent}, MaxSwitches) :
       \E weights_line \in WeightLines(Cardinality(stones) + FixedStones(layout)) :
          ReadFile(weights_line, GridLines(layout, agent, stones, switches))
    /\ game' = [NewGame EXCEPT !.stones_images_positions = DOMAIN state'.stones_weights]
    /\ buttons' = NewButtons
    /\ gui_pc' = "Running"
    /\ UNCHANGED <<algorithm, frontier, visited, nodes_count, path, results, pending_tasks>>

\* The loop over self._buttons in MainGui.process_event: every button gets
\* the event in turn until one consumes it.
RECURSIVE ProcessButtons(_, _, _, _)
ProcessButtons(bs, i, type, pos) ==
    IF i > Len(ButtonIds) THEN [buttons |-> bs, consumed_by |-> "none"]
    ELSE LET id == ButtonIds[i]
             res == process_event(bs[id], type, pos = id)
             after == [bs EXCEPT ![id] = res.button]
         IN  IF res.consumed THEN [buttons |-> after, consumed_by |-> id]
             ELSE ProcessButtons(after, i + 1, type, pos)

\* The case of MainGui.process_event for the button that consumed the
\* event: the buttons, the game and the pending tasks after it, and
\* whether start_animation raised.
ButtonCase(id, bs, g, tasks) ==
    CASE id = "start" ->
            [buttons |-> [bs EXCEPT !["pause_resume"] = set_mode(@, TRUE),
                                    !["reset"] = set_mode(@, TRUE),
                                    !["start"] = set_mode(@, FALSE)],
             game |-> start_animation(g).game,
             pending_tasks |-> tasks,
             raised |-> start_animation(g).raised]
      [] id = "pause_resume" ->
            [buttons |-> [bs EXCEPT !["pause_resume"].text =
                             IF ~bs["pause_resume"].state THEN "Pause" ELSE "Resume"],
             game |-> pause_resume_animation(g),
             pending_tasks |-> tasks,
             raised |-> FALSE]
      [] id = "reset" ->
            [buttons |-> [bs EXCEPT !["start"] = set_mode(@, TRUE),
                                    !["pause_resume"] =
                                        [set_mode(@, FALSE) EXCEPT !.text = "Pause"],
                                    !["reset"] = set_mode(@, FALSE)],
             game |-> reset_animation(g),
             pending_tasks |-> tasks,
             raised |-> FALSE]
      [] id = "search" ->
            [buttons |-> [bs EXCEPT !["search"] = set_mode(@, FALSE)],
             game |-> g,
             pending_tasks |-> tasks + 1,
             raised |-> FALSE]
      [] OTHER ->
            [buttons |-> bs, game |-> g, pending_tasks |-> tasks, raised |-> FALSE]

\* MainGui.process_event on a left mouse button event that no dropdown
\* takes. An exception of start_animation leaves main_loop.
ProcessEvent ==
    /\ gui_pc = "Running"
    /\ \E type \in {"MOUSEBUTTONDOWN", "MOUSEBUTTONUP"} :
       \E pos \in MousePositions :
       \E done \in {ProcessButtons(buttons, 1, type, pos)} :
       \E after \in {ButtonCase(done.consumed_by, done.buttons, game, pending_tasks)} :
          /\ buttons' = after.buttons
          /\ game' = after.game
          /\ pending_tasks' = after.pending_tasks
          /\ gui_pc' = IF after.raised THEN "Crashed" ELSE gui_pc
          /\ error' = IF after.raised THEN "IndexError" ELSE error
    /\ UNCHANGED <<pc, algorithm, tiles, size, state, frontier, visited, nodes_count,
                   path, first_line, maze_strings_list, results>>

\* MainGui.update(time_delta): the Pause button goes off once the animation
\* has finished, the buttons follow the mouse, the game advances, and a
\* pending task begins: Game.start_search runs the search of the algorithm
\* selected in the dropdown. An exception of Game.update leaves main_loop.
Update ==
    /\ gui_pc = "Running"
    /\ \E time_delta \in TimeDeltas :
       \E mouse \in MousePositions :
       \E seen \in {IF game.finished_animating
                    THEN [buttons EXCEPT !["pause_resume"] = set_mode(@, FALSE)]
                    ELSE buttons} :
       \E updated \in {update(game, time_delta)} :
          /\ buttons' = [id \in DOMAIN seen |-> ButtonUpdate(seen[id], mouse = id)]
          /\ game' = updated.game
          /\ IF updated.raised
             THEN /\ gui_pc' = "Crashed"
                  /\ error' = "KeyError"
                  /\ UNCHANGED <<pc, algorithm, frontier, visited, nodes_count, pending_tasks>>
             ELSE IF pending_tasks > 0
             THEN /\ pending_tasks' = pending_tasks - 1
                  /\ gui_pc' = "InTask"
                  /\ algorithm' \in {"DFS", "BFS", "UFC", "A_STAR"}
                  /\ visited' = {compress_state(tiles, state)}
                  /\ frontier' = <<FirstEntry(algorithm')>>
                  /\ nodes_count' = 0
                  /\ pc' = "Expanding"
                  /\ UNCHANGED error
             ELSE UNCHANGED <<gui_pc, error, pc, algorithm, frontier, visited,
                              nodes_count, pending_tasks>>
    /\ UNCHANGED <<tiles, size, state, path, first_line, maze_strings_list, results>>

\* The rest of _task once start_search has returned: Start is enabled,
\* Pause and Reset are disabled, Search is enabled again and the animation
\* is reset. An exception of the search leaves main_loop.
TaskReturn ==
    /\ gui_pc = "InTask"
    /\ pc \in {"Solved", "Exhausted", "Error"}
    /\ IF pc = "Error"
       THEN /\ gui_pc' = "Crashed"
            /\ UNCHANGED <<game, buttons>>
       ELSE /\ gui_pc' = "Running"
            /\ buttons' = [buttons EXCEPT
                              !["start"] = set_mode(@, TRUE),
                              !["pause_resume"] =
                                  [set_mode(@, FALSE) EXCEPT !.text = "Pause"],
                              !["reset"] = set_mode(@, FALSE),
                              !["search"] = set_mode(@, TRUE)]
            /\ game' = reset_animation(game)
    /\ UNCHANGED <<pc, algorithm, tiles, size, state, frontier, visited, nodes_count,
                   path, error, first_line, maze_strings_list, results, pending_tasks>>

GuiNext ==
    \/ MainGuiInit
    \/ ProcessEvent
    \/ Update
    \/ DfsIter \/ BfsIter \/ UcsIter \/ AStarIter
    \/ TaskReturn

GuiSpec == Init /\ [][GuiNext]_vars

\* ------------------------------------------------------------------------
\* Properties
\* ------------------------------------------------------------------------
\* C1: whenever a search returns True, replaying the returned path from the
\* initial state with the move generator is legal at every step and ends in
\* a state where every switch is covered.
C1_ReturnedPathSolves ==
    pc = "Solved" =>
        \A final \in {Replay(tiles, state, path, 1)} :
            final.legal /\ EverySwitchCovered(final.state)

C1_Witness ==
    /\ pc = "Solved" /\ Len(path) >= 3
    /\ Cardinality(DOMAIN state.switches_states) = 2
    /\ \E i \in 1..Len(path) : IsPushLetter(path[i])

\* C2: on a solvable puzzle whose start region is wall-enclosed, every
\* search that has begun ends, and ends having returned True.
C2_SolvableEndsSolved ==
    (pc = "Expanding" /\ nodes_count = 0 /\ WallEnclosed(tiles, state) /\ Solvable(tiles, state))
        ~> (pc = "Solved")

C2_Witness ==
    /\ pc = "Solved" /\ algorithm = "A_STAR" /\ Len(path) >= 4
    /\ WallEnclosed(tiles, state)

C4_UnsolvableNeverFails ==
    pc = "Error" => ~(WallEnclosed(tiles, state) /\ ~Solvable(tiles, state))

\* C5: in every state the move generator produces the agent stands on a
\* Floor cell of the board.
C5_AgentOnFloor ==
    \A gen \in {Generated} : \A i \in 1..Len(gen) :
        /\ InGrid(tiles, gen[i].state.agent_position)
        /\ TileAt(tiles, gen[i].state.agent_position[1], gen[i].state.agent_position[2])
               = TileBLANK

\* Every stone of the state lies on a Floor cell of the board.
StonesOnFloor(s) ==
    \A p \in DOMAIN s.stones_weights : InGrid(tiles, p) /\ TileAt(tiles, p[1], p[2]) = TileBLANK

\* C6: when every stone of the initial state lies on a Floor cell, so does
\* every stone of every state the move generator produces.
C6_StonesOnFloor ==
    (Searching /\ StonesOnFloor(state)) =>
        \A gen \in {Generated} : \A i \in 1..Len(gen) : StonesOnFloor(gen[i].state)

\* The cell the agent enters in direction m, and the cell behind it.
Ahead(s, m) == <<s.agent_position[1] + m.vertical, s.agent_position[2] + m.horizontal>>
Behind(s, m) == <<s.agent_position[1] + 2 * m.vertical, s.agent_position[2] + 2 * m.horizontal>>

\* Direction m of state s has a stone ahead and a stone right behind it.
TwoStonesInRow(s, m) ==
    Ahead(s, m) \in DOMAIN s.stones_weights /\ Behind(s, m) \in DOMAIN s.stones_weights

\* C7: a direction with a stone ahead and a second stone right behind it
\* yields no successor, and no successor has fewer distinct stone positions
\* than its parent.
C7_NoPushIntoStone ==
    \A gen \in {Generated} : \A i \in 1..Len(gen) :
        /\ \A k \in 1..4 :
               TwoStonesInRow(NextEntry.state, Movement[k]) =>
                   gen[i].state.agent_position # Ahead(NextEntry.state, Movement[k])
        /\ Cardinality(DOMAIN gen[i].state.stones_weights)
               = Cardinality(DOMAIN NextEntry.state.stones_weights)

C7_Witness ==
    /\ pc = "Expanding" /\ ~is_finished(NextEntry.state)
    /\ \E k \in 1..4 : TwoStonesInRow(NextEntry.state, Movement[k])
    /\ Generated # <<>>

\* C8: every generated state has as many stones as the initial state and the
\* same set of switch positions.
C8_StonesAndSwitchesKept ==
    \A gen \in {Generated} : \A i \in 1..Len(gen) :
        /\ Cardinality(DOMAIN gen[i].state.stones_weights)
               = Cardinality(DOMAIN state.stones_weights)
        /\ DOMAIN gen[i].state.switches_states = DOMAIN state.switches_states

C8_Witness ==
    /\ Cardinality(DOMAIN state.stones_weights) = 2
    /\ Cardinality(DOMAIN state.switches_states) = 2
    /\ \E i \in 1..Len(Generated) :
          /\ IsPushLetter(Last(Generated[i].path))
          /\ Generated[i].state.agent_position \notin DOMAIN state.switches_states
          /\ Behind(NextEntry.state, DirectionOf(Last(Generated[i].path)))
                 \notin DOMAIN state.switches_states
          /\ Len(Generated[i].path) >= 3

\* C9: in every generated state the agent position is no key of the stone
\* mapping and no Wall cell.
C9_AgentOffStonesAndWalls ==
    \A gen \in {Generated} : \A i \in 1..Len(gen) :
        /\ gen[i].state.agent_position \notin DOMAIN gen[i].state.stones_weights
        /\ TileAt(tiles, gen[i].state.agent_position[1], gen[i].state.agent_position[2])
               \notin {TileBRICK, "IndexError"}

C9_Witness ==
    \E i \in 1..Len(Generated) :
        /\ IsPushLetter(Last(Generated[i].path))
        /\ Len(Generated[i].path) >= 2

\* The number of stones of weight w in state s.
StonesOfWeight(s, w) == Cardinality({p \in DOMAIN s.stones_weights : s.stones_weights[p] = w})

WeightsOf(s) == {s.stones_weights[p] : p \in DOMAIN s.stones_weights}

\* C10: a push moves exactly the stone at D to D2 and keeps its weight, so
\* the multiset of weights is that of the initial state; it clears the flag
\* of D when D is a switch and sets the flag of D2 when D2 is a switch.
C10_PushEffect ==
    \A gen \in {Generated} : \A i \in 1..Len(gen) :
        \A parent \in {NextEntry.state} : \A child \in {gen[i].state} :
            /\ \A w \in WeightsOf(state) \cup WeightsOf(child) :
                   StonesOfWeight(child, w) = StonesOfWeight(state, w)
            /\ IsPushLetter(Last(gen[i].path)) =>
                 \A D \in {Ahead(parent, DirectionOf(Last(gen[i].path)))} :
                 \A D2 \in {Behind(parent, DirectionOf(Last(gen[i].path)))} :
                    /\ D \in DOMAIN parent.stones_weights
                    /\ DOMAIN child.stones_weights
                           = (DOMAIN parent.stones_weights \ {D}) \cup {D2}
                    /\ child.stones_weights[D2] = parent.stones_weights[D]
                    /\ D \in DOMAIN child.switches_states => ~child.switches_states[D]
                    /\ D2 \in DOMAIN child.switches_states => child.switches_states[D2]

C10_Witness ==
    \E i \in 1..Len(Generated) :
        /\ IsPushLetter(Last(Generated[i].path))
        /\ Generated[i].state.agent_position \in DOMAIN state.switches_states
        /\ Behind(NextEntry.state, DirectionOf(Last(Generated[i].path)))
               \in DOMAIN state.switches_states
        /\ NextEntry.state.stones_weights[Generated[i].state.agent_position] > 1

\* C11: a plain move changes only the agent position: the stone mapping and
\* every switch flag are those of the parent. A push leaves every stone other
\* than the pushed one where it was, with its weight, and every switch flag
\* other than those of D and D2 as it was.
C11_MoveFrame ==
    \A gen \in {Generated} : \A i \in 1..Len(gen) :
        \A parent \in {NextEntry.state} : \A child \in {gen[i].state} :
        \A D \in {Ahead(parent, DirectionOf(Last(gen[i].path)))} :
        \A D2 \in {Behind(parent, DirectionOf(Last(gen[i].path)))} :
            IF IsPushLetter(Last(gen[i].path))
            THEN /\ \A p \in DOMAIN parent.stones_weights \ {D} :
                        /\ p \in DOMAIN child.stones_weights
                        /\ child.stones_weights[p] = parent.stones_weights[p]
                 /\ DOMAIN child.stones_weights \ {D2} = DOMAIN parent.stones_weights \ {D}
                 /\ DOMAIN child.switches_states = DOMAIN parent.switches_states
                 /\ \A p \in DOMAIN parent.switches_states \ {D, D2} :
                        child.switches_states[p] = parent.switches_states[p]
            ELSE /\ child.stones_weights = parent.stones_weights
                 /\ child.switches_states = parent.switches_states
                 /\ child.agent_position = D

\* A push of one stone while the other stone covers a switch that is neither
\* D nor D2, next to a plain move of the same parent.
C11_Witness ==
    /\ Cardinality(DOMAIN state.stones_weights) = 2
    /\ \E i, j \in 1..Len(Generated) :
          /\ IsPushLetter(Last(Generated[i].path))
          /\ ~IsPushLetter(Last(Generated[j].path))
          /\ \E p \in DOMAIN NextEntry.state.switches_states :
                /\ NextEntry.state.switches_states[p]
                /\ p # Generated[i].state.agent_position
                /\ p # Behind(NextEntry.state, DirectionOf(Last(Generated[i].path)))

\* The step a path letter describes, taken from state s: the agent goes one
\* cell in the letter's direction (l column-1, r column+1, u row-1, d row+1);
\* an uppercase letter asks for a stone on that cell and moves it one cell
\* further, a lowercase letter asks for none. Only positions are followed.
StepByLetter(s, letter) ==
    LET rowStep == CASE letter \in {"u", "U"} -> -1 [] letter \in {"d", "D"} -> 1 [] OTHER -> 0
        colStep == CASE letter \in {"l", "L"} -> -1 [] letter \in {"r", "R"} -> 1 [] OTHER -> 0
        to == <<s.agent[1] + rowStep, s.agent[2] + colStep>>
        further == <<to[1] + rowStep, to[2] + colStep>>
    IN  IF letter \in {"L", "R", "U", "D"}
        THEN [agent |-> to, stones |-> (s.stones \ {to}) \cup {further},
              ok |-> s.ok /\ to \in s.stones]
        ELSE [agent |-> to, stones |-> s.stones,
              ok |-> s.ok /\ letter \in {"l", "r", "u", "d"} /\ to \notin s.stones]

RECURSIVE WalkLetters(_, _, _)
WalkLetters(s, letters, i) ==
    IF i > Len(letters) THEN s ELSE WalkLetters(StepByLetter(s, letters[i]), letters, i + 1)

\* The positions a path leads to from the initial state, read by its letters.
PositionsAfter(letters) ==
    WalkLetters([agent |-> state.agent_position, stones |-> DOMAIN state.stones_weights,
                 ok |-> TRUE], letters, 1)

\* C12: every path the engine builds reads as the steps taken: the path of a
\* frontier entry, read letter by letter from the initial state (uppercase:
\* a stone is displaced in the letter's direction, lowercase: a plain move
\* in the letter's direction), leads to the entry's agent position and stone
\* positions, and the path of every successor is its parent's path with one
\* such letter more.
C12_LettersNameSteps ==
    /\ pc = "Expanding" =>
           \A walked \in {PositionsAfter(NextEntry.path)} :
               /\ walked.ok
               /\ walked.agent = NextEntry.state.agent_position
               /\ walked.stones = DOMAIN NextEntry.state.stones_weights
    /\ \A gen \in {Generated} : \A i \in 1..Len(gen) :
           /\ Len(gen[i].path) = Len(NextEntry.path) + 1
           /\ SubSeq(gen[i].path, 1, Len(NextEntry.path)) = NextEntry.path
           /\ \A stepped \in {StepByLetter([agent |-> NextEntry.state.agent_position,
                                            stones |-> DOMAIN NextEntry.state.stones_weights,
                                            ok |-> TRUE], Last(gen[i].path))} :
                  /\ stepped.ok
                  /\ stepped.agent = gen[i].state.agent_position
                  /\ stepped.stones = DOMAIN gen[i].state.stones_weights
                  /\ IsPushLetter(Last(gen[i].path))
                         <=> (gen[i].state.stones_weights # NextEntry.state.stones_weights)

\* An entry whose path holds a plain move and a push is expanded into a
\* push and a plain move.
C12_Witness ==
    /\ pc = "Expanding" /\ Len(NextEntry.path) >= 3
    /\ \E a, b \in 1..Len(NextEntry.path) :
          IsPushLetter(NextEntry.path[a]) /\ ~IsPushLetter(NextEntry.path[b])
    /\ \E i, j \in 1..Len(Generated) :
          IsPushLetter(Last(Generated[i].path)) /\ ~IsPushLetter(Last(Generated[j].path))

\* The rank of the step from cell p to cell q in the order left (column-1),
\* right (column+1), up (row-1), down (row+1); 0 when q is no neighbour of p.
StepRank(p, q) ==
    CASE q = <<p[1], p[2] - 1>> -> 1
      [] q = <<p[1], p[2] + 1>> -> 2
      [] q = <<p[1] - 1, p[2]>> -> 3
      [] q = <<p[1] + 1, p[2]>> -> 4
      [] OTHER -> 0

\* C13: the successors of a state are returned in the order left, right, up,
\* down of the steps their agents took, each direction at most once.
C13_FixedDirectionOrder ==
    \A gen \in {Generated} :
        /\ \A i \in 1..Len(gen) :
               StepRank(NextEntry.state.agent_position, gen[i].state.agent_position) # 0
        /\ \A i, j \in 1..Len(gen) :
               i < j => StepRank(NextEntry.state.agent_position, gen[i].state.agent_position)
                            < StepRank(NextEntry.state.agent_position, gen[j].state.agent_position)

\* Three directions or more yield a successor, a push and a plain move
\* among them.
C13_Witness ==
    /\ Len(Generated) >= 3
    /\ \E i, j \in 1..Len(Generated) :
          IsPushLetter(Last(Generated[i].path)) /\ ~IsPushLetter(Last(Generated[j].path))

\* The states the engine holds: those of the frontier entries and of the
\* successors the next loop iteration generates.
HeldStates ==
    {frontier[i].state : i \in 1..Len(frontier)} \cup {Generated[i].state : i \in 1..Len(Generated)}

\* What a key has to tell apart: the agent position, the set of stone
\* positions and the covered flags of the switches.
KeyFacts(s) == <<s.agent_position, DOMAIN s.stones_weights, s.switches_states>>

\* C14: of any two states the engine holds on one board, the keys are equal
\* exactly when the agent position, the stone-position set and the switch
\* covered flags are all equal.
C14_KeysTellStatesApart ==
    pc = "Expanding" =>
        \A held \in {HeldStates} :
        \A keys \in {[s \in held |-> compress_state(tiles, s)]} :
            \A a, b \in held : (keys[a] = keys[b]) <=> (KeyFacts(a) = KeyFacts(b))

\* C15: generating the successors of a state leaves that state as it was,
\* and no step of a search changes the tile grid or the initial state of
\* the Maze (agent position, stone mapping, switch flags).
C15_SearchKeepsBoardAndInitialState ==
    [][/\ pc = "Expanding" => StateLeftBy(NextEntry.state, Generated, 1) = NextEntry.state
       /\ pc \in {"Ready", "Expanding"} => (tiles' = tiles /\ state' = state)]_vars

\* The first expansion of a search has generated a push, whose state holds
\* a stone mapping and switch flags other than the initial ones.
C15_Witness ==
    /\ pc = "Expanding" /\ nodes_count = 1
    /\ \E i \in 1..Len(frontier) :
          /\ Len(frontier[i].path) = 1 /\ IsPushLetter(frontier[i].path[1])
          /\ frontier[i].state.stones_weights # state.stones_weights
          /\ frontier[i].state.switches_states # state.switches_states

\* The state a path leads to from s, following the move generator.
PathState(s, letters) == Replay(tiles, s, letters, 1).state

\* The sum of the heuristic values of the proper ancestors of the entry with
\* the given path: the states its proper prefixes lead to.
RECURSIVE AncestorHeuristicSum(_, _)
AncestorHeuristicSum(letters, n) ==
    IF n = 0 THEN 0
    ELSE AncestorHeuristicSum(letters, n - 1)
             + heuristic(PathState(state, SubSeq(letters, 1, n - 1)))

\* The entries the a_star_search step from the current state to the next
\* pushes: those of the next frontier that the current one does not hold.
PushedEntries(before, after) ==
    {after[i] : i \in 1..Len(after)} \ {before[i] : i \in 1..Len(before)}

\* C16: in a_star_search the initial entry has priority 0, every entry of
\* the frontier has as priority the sum of the heuristic values of its
\* proper ancestors, and every successor pushed has the priority of its
\* parent plus the heuristic of its parent, the same for all successors of
\* one parent.
C16_AStarPriorities ==
    [][algorithm = "A_STAR" /\ pc = "Expanding" =>
          /\ nodes_count = 0 => frontier = <<[cost |-> 0, state |-> state, path |-> <<>>]>>
          /\ \A i \in 1..Len(frontier) :
                 frontier[i].cost = AncestorHeuristicSum(frontier[i].path, Len(frontier[i].path))
          /\ \A e \in PushedEntries(frontier, frontier') :
                 /\ e.cost = frontier[1].cost + heuristic(frontier[1].state)
                 /\ SubSeq(e.path, 1, Len(e.path) - 1) = frontier[1].path]_vars

\* An a_star_search frontier with entries of three priorities, the deepest
\* of them three steps from the initial state.
C16_Witness ==
    /\ algorithm = "A_STAR" /\ pc = "Expanding"
    /\ Cardinality({frontier[i].cost : i \in 1..Len(frontier)}) >= 3
    /\ \E i \in 1..Len(frontier) : Len(frontier[i].path) >= 3
    /\ \E i, j \in 1..Len(frontier) :
          i # j /\ frontier[i].cost = frontier[j].cost /\ frontier[i].cost > 0

\* The reference formula of the estimate. manhattan is the taxicab distance
\* of two cells; the sums run over the cells of a set one by one.
manhattan(a, b) ==
    (IF a[1] > b[1] THEN a[1] - b[1] ELSE b[1] - a[1])
        + (IF a[2] > b[2] THEN a[2] - b[2] ELSE b[2] - a[2])

RECURSIVE TotalPushCost(_, _, _)
TotalPushCost(s, sw, stones) ==
    IF stones = {} THEN 0
    ELSE LET pos == CHOOSE p \in stones : TRUE
         IN  manhattan(pos, sw) * s.stones_weights[pos] + TotalPushCost(s, sw, stones \ {pos})

\* The least of manhattan(agent, pos) + push_cost over the stones
BestApproach(s, sw) ==
    CHOOSE least \in {manhattan(s.agent_position, pos) + manhattan(pos, sw) * s.stones_weights[pos] :
                         pos \in DOMAIN s.stones_weights} :
        \A pos \in DOMAIN s.stones_weights :
            least <= manhattan(s.agent_position, pos) + manhattan(pos, sw) * s.stones_weights[pos]

RECURSIVE ReferenceEstimate(_, _)
ReferenceEstimate(s, switches) ==
    IF switches = {} THEN 0
    ELSE LET sw == CHOOSE p \in switches : TRUE
         IN  TotalPushCost(s, sw, DOMAIN s.stones_weights) + BestApproach(s, sw)
                 + ReferenceEstimate(s, switches \ {sw})

\* C17: for every state with at least one stone that a search is about to
\* expand, heuristic is the sum over all switches, covered or not, of the
\* push costs of all stones to the switch plus the least approach-and-push
\* cost of a stone.
C17_HeuristicIsReference ==
    pc = "Expanding" =>
        \A s \in {NextEntry.state} :
            DOMAIN s.stones_weights # {} =>
                heuristic(s) = ReferenceEstimate(s, DOMAIN s.switches_states)

\* A state with two stones of different weights, a covered switch and an
\* uncovered one, and a positive estimate.
C17_Witness ==
    /\ pc = "Expanding"
    /\ \E s \in {NextEntry.state} :
          /\ Cardinality(DOMAIN s.stones_weights) = 2
          /\ Cardinality(WeightsOf(s)) = 2
          /\ \E p, q \in DOMAIN s.switches_states : s.switches_states[p] /\ ~s.switches_states[q]
          /\ heuristic(s) > 0

\* The states of one loop iteration: the one expanded and its successors.
ExpansionStates == {NextEntry.state} \cup {Generated[i].state : i \in 1..Len(Generated)}

\* C18: State.heuristic returns a non-negative integer for every state the
\* engine holds, whatever the number of stones and switches; it never fails.
C18_HeuristicNeverFails ==
    pc = "Expanding" =>
        \A s \in ExpansionStates : ~heuristic_raises(s) /\ heuristic(s) >= 0

\* C19: on a board without switches a search that has begun is either about
\* to remove its first entry, or has returned True on that removal: the path
\* is empty, the node count is 1 and no successor was generated, so the
\* frontier is empty and the visited set holds the one key of the initial
\* state.
C19_NoSwitchSolvedAtOnce ==
    (pc \in {"Expanding", "Solved", "Exhausted", "Error"} /\ DOMAIN state.switches_states = {}) =>
        \/ pc = "Expanding" /\ nodes_count = 0 /\ Len(frontier) = 1
        \/ /\ pc = "Solved" /\ path = <<>> /\ nodes_count = 1
           /\ frontier = <<>> /\ visited = {compress_state(tiles, state)}

\* A search has ended on a board without switches that holds two stones.
C19_Witness ==
    /\ pc = "Solved" /\ DOMAIN state.switches_states = {}
    /\ Cardinality(DOMAIN state.stones_weights) = 2
    /\ algorithm = "UFC"

\* The board is a room of 3 x 3 Floor cells with a wall all around.
IsRoom3x3(tls) ==
    /\ Len(tls) = 5
    /\ \A r \in 1..5 :
          /\ Len(tls[r]) = 5
          /\ \A c \in 1..5 :
                tls[r][c] = (IF r \in {1, 5} \/ c \in {1, 5} THEN TileBRICK ELSE TileBLANK)

\* The one stone of the initial state, of weight 1, is next to the agent in
\* direction m, and the one switch two cells from the agent in direction m.
OnePushAway(s, m) ==
    /\ DOMAIN s.stones_weights = {Ahead(s, m)}
    /\ s.stones_weights[Ahead(s, m)] = 1
    /\ DOMAIN s.switches_states = {Behind(s, m)}

\* C20: in a wall-enclosed room of 3 x 3 cells with one stone of weight 1
\* next to the agent and one switch two cells from the agent in the same
\* direction, a search that has ended has returned True with a path of the
\* one uppercase letter of that direction, and has counted at least one node.
C20_OnePushSolves ==
    \A k \in 1..4 :
        (/\ pc \in {"Solved", "Exhausted", "Error"}
         /\ IsRoom3x3(tiles) /\ OnePushAway(state, Movement[k])) =>
            /\ pc = "Solved"
            /\ path = <<Upper(Movement[k].action)>>
            /\ nodes_count >= 1

\* depth_first_search has returned from that room after more than the one
\* expansion, the push being upwards.
C20_Witness ==
    /\ pc = "Solved" /\ algorithm = "DFS" /\ nodes_count > 1
    /\ IsRoom3x3(tiles) /\ OnePushAway(state, Movement[3])

\* The initial state holds one stone, each of the four cells next to it is
\* a wall, and there are switches, none of them under the stone.
OnlyStoneBoxedIn(tls, s) ==
    /\ Cardinality(DOMAIN s.stones_weights) = 1
    /\ \A p \in DOMAIN s.stones_weights :
          /\ \A q \in Neighbours(p) : InGrid(tls, q) /\ tls[q[1] + 1][q[2] + 1] = TileBRICK
          /\ p \notin DOMAIN s.switches_states
    /\ DOMAIN s.switches_states # {}

\* The cells the agent reaches by plain moves.
AgentCells(tls, s) == WalkRegion(tls, {s.agent_position}, {s.agent_position})

IsWall(tls, r, c) == InGrid(tls, <<r, c>>) /\ tls[r + 1][c + 1] = TileBRICK

\* Columns c1..c2 of row r are a run of non-wall cells with a wall right
\* before and right after it.
RowBoundedRun(tls, r, c1, c2) ==
    /\ IsWall(tls, r, c1 - 1) /\ IsWall(tls, r, c2 + 1)
    /\ \A c \in c1..c2 : InGrid(tls, <<r, c>>) /\ ~IsWall(tls, r, c)

\* Rows r1..r2 of column c are a run of non-wall cells with a wall right
\* above and right below it.
ColumnBoundedRun(tls, c, r1, r2) ==
    /\ IsWall(tls, r1 - 1, c) /\ IsWall(tls, r2 + 1, c)
    /\ \A r \in r1..r2 : InGrid(tls, <<r, c>>) /\ ~IsWall(tls, r, c)

\* The classification rule: the cell belongs to a row-bounded run, and some
\* column of that run has a column-bounded run that covers the cell's row.
FloorByRule(tls, r, c) ==
    \E c1 \in 0..c : \E c2 \in c..(Len(tls[r + 1]) - 1) :
        /\ RowBoundedRun(tls, r, c1, c2)
        /\ \E k \in c1..c2 : \E r1 \in 0..r : \E r2 \in r..(Len(tls) - 1) :
               ColumnBoundedRun(tls, k, r1, r2)

\* C22: after the board is built, a non-wall cell is Floor exactly when the
\* classification rule makes it Floor, and Unknown otherwise.
C22_FloorIffEnclosedBothWays ==
    pc = "Ready" =>
        \A r \in 0..(Len(tiles) - 1) : \A c \in 0..(Len(tiles[r + 1]) - 1) :
            ~IsWall(tiles, r, c) =>
                /\ tiles[r + 1][c + 1] \in {TileBLANK, TileNONE}
                /\ (tiles[r + 1][c + 1] = TileBLANK) <=> FloorByRule(tiles, r, c)

\* The place of stone p in reading order (rows top to bottom, each row left
\* to right) among the stones of s: 1 for the first stone met.
ReadingRank(s, p) ==
    Cardinality({q \in DOMAIN s.stones_weights :
                    q[1] < p[1] \/ (q[1] = p[1] /\ q[2] <= p[2])})

\* C23: after a successful read the stones hold the weights of line 1 in
\* reverse of reading order: the first stone met holds the last weight of
\* the line, the second stone the one before it, and so on.
C23_WeightsInReverseOrder ==
    pc = "Ready" =>
        \A p \in DOMAIN state.stones_weights :
            state.stones_weights[p] = first_line[Len(first_line) + 1 - ReadingRank(state, p)]

\* The Maze holds what it held before read_input was called.
NothingRead ==
    /\ tiles = <<>> /\ size = <<0, 0>>
    /\ state = NewState

\* C24: when read_input reports failure for a character outside the
\* recognized set, the tile grid, the size, the agent position and the
\* stone and switch mappings are as they were before the call.
C24_BadCharacterLeavesNothing ==
    (pc = "ReadFailed" /\ error = "none") => NothingRead

\* C25: when line 1 holds fewer weights than the grid holds stones,
\* read_input fails and leaves no partly filled tile grid or stone or
\* switch mapping behind.
C25_TooFewWeightsLeavesNothing ==
    (pc = "ReadFailed" /\ error # "none") =>
        /\ tiles = <<>>
        /\ state.stones_weights = EmptyMap /\ state.switches_states = EmptyMap

\* The canonical keys of the entries of a frontier, in its order.
KeysOf(entries) == [i \in 1..Len(entries) |-> compress_state(tiles, entries[i].state)]

\* The entries of `after` that `before` does not hold: those one loop
\* iteration pushes (every entry has a path of its own).
PushedBy(before, after) ==
    {i \in 1..Len(after) : \A j \in 1..Len(before) : before[j] # after[i]}

\* C26: a search starts with a visited set that holds only the key of the
\* initial state. A loop iteration pushes a successor only if its key was
\* not in the visited set, and the key is in the set afterwards; keys
\* pushed by one iteration differ from each other. So the keys of the
\* frontier entries are all different and all visited, and the node counter
\* plus the length of the frontier never exceeds the size of the visited
\* set.
C26_VisitedDiscipline ==
    [][/\ (pc = "Ready" /\ pc' = "Expanding") =>
              /\ visited' = {compress_state(tiles, state)}
              /\ Len(frontier') = 1 /\ frontier'[1].state = state /\ frontier'[1].path = <<>>
       /\ (pc = "Expanding" /\ pc' \in {"Expanding", "Exhausted", "Solved"}) =>
              \A keys \in {KeysOf(frontier')} :
              \A pushed \in {PushedBy(frontier, frontier')} :
                  /\ \A i \in pushed : keys[i] \notin visited /\ keys[i] \in visited'
                  /\ \A i, j \in pushed : i # j => keys[i] # keys[j]
                  /\ \A i \in 1..Len(frontier') : keys[i] \in visited'
                  /\ \A i, j \in 1..Len(frontier') : i # j => keys[i] # keys[j]
                  /\ visited \subseteq visited'
                  /\ nodes_count' + Len(frontier') <= Cardinality(visited')]_vars

\* A loop iteration has left out a successor whose key was visited and
\* pushed another: the frontier holds several entries after several nodes.
C26_Witness ==
    /\ pc = "Expanding" /\ nodes_count >= 3 /\ Len(frontier) >= 3
    /\ Len(Generated) >= 2
    /\ \E i, j \in 1..Len(Generated) :
          /\ compress_state(tiles, Generated[i].state) \in visited
          /\ compress_state(tiles, Generated[j].state) \notin visited


\* The search keeps its frontier in a heap.
PriorityOrdered == algorithm \in {"UFC", "A_STAR"}

\* C27: in uniform_cost_search and a_star_search the entry a loop iteration
\* removes is the root of the heap, whose priority is minimal among the
\* entries of the frontier, and no entry of the frontier the iteration
\* leaves has a smaller priority than the removed one, so the priorities of
\* removed entries never decrease; in uniform_cost_search the priority of
\* every entry is the length of its path.
C27_RemovalsByPriority ==
    [][(pc = "Expanding" /\ PriorityOrdered /\ pc' \in {"Expanding", "Exhausted", "Solved"}) =>
          /\ \A i \in 1..Len(frontier) : frontier[1].cost <= frontier[i].cost
          /\ \A j \in 1..Len(frontier') :
                /\ frontier'[j] # frontier[1]
                /\ frontier'[j].cost >= frontier[1].cost
          /\ pc' = "Solved" => path' = frontier[1].path
          /\ PushedEntries(frontier, frontier') # {} =>
                \A e \in PushedEntries(frontier, frontier') :
                    SubSeq(e.path, 1, Len(e.path) - 1) = frontier[1].path
          /\ algorithm = "UFC" =>
                /\ \A i \in 1..Len(frontier) : frontier[i].cost = Len(frontier[i].path)
                /\ \A j \in 1..Len(frontier') : frontier'[j].cost = Len(frontier'[j].path)]_vars

\* A heap of several priorities that is not a sorted list: an entry stands
\* before one of smaller priority, and the root is still the smallest.
C27_Witness ==
    /\ pc = "Expanding" /\ PriorityOrdered /\ nodes_count >= 2
    /\ Len(frontier) >= 3
    /\ \E i, j \in 1..Len(frontier) : i < j /\ frontier[i].cost > frontier[j].cost


\* The next loop iteration of a priority-ordered search raises inside a
\* comparison of two frontier entries, in its heappop or in one of its
\* heappush calls.
ComparisonFails ==
    \E popped \in {heappop(frontier)} :
        \/ popped.raised
        \/ /\ ~is_finished(popped.item.state)
           /\ \E gen \in {generate_new_states(tiles, popped.item.state, popped.item.path)} :
                 /\ ~gen.raised
                 /\ \E new \in {FilterNew(tiles, visited, gen.new_states, 1)} :
                       IF algorithm = "UFC"
                       THEN PushAll(popped.heap, UcsPriority(popped.item.cost),
                                    new.fresh, 1).raised
                       ELSE /\ new.fresh # <<>>
                            /\ ~heuristic_raises(popped.item.state)
                            /\ PushAll(popped.heap,
                                       AStarPriority(popped.item.cost, popped.item.state),
                                       new.fresh, 1).raised

\* Among the entries that share the smallest priority, the root of the heap
\* has the smallest heuristic value.
RootHasSmallestHeuristic ==
    \A i \in 1..Len(frontier) :
        (/\ frontier[i].cost = frontier[1].cost
         /\ ~heuristic_raises(frontier[1].state)
         /\ ~heuristic_raises(frontier[i].state)) =>
            heuristic(frontier[1].state) <= heuristic(frontier[i].state)

\* C28: in uniform_cost_search and a_star_search the entry removed next,
\* the root of the heap, has the smallest heuristic value among the entries
\* of minimal priority, and no comparison of two entries raises.
C28_TieBreakBySmallestHeuristic ==
    (pc = "Expanding" /\ PriorityOrdered) =>
        /\ RootHasSmallestHeuristic
        /\ ~ComparisonFails


\* The entries of `after` that stand above the first n.
EntriesAbove(after, n) == {i \in 1..Len(after) : i > n}

\* C29: depth_first_search removes the entry pushed last. A loop iteration
\* takes the top of the stack and leaves every entry below it in place; what
\* it pushes are the successors of the removed state whose keys were not
\* visited, on top of the stack in left, right, up, down order, so the one
\* generated last is removed next and the entries below are reached only
\* when everything above them is gone.
C29_DfsTakesNewestFirst ==
    [][(pc = "Expanding" /\ algorithm = "DFS" /\ pc' \in {"Expanding", "Exhausted", "Solved"}) =>
          \A top \in {Last(frontier)} :
          \A below \in {SubSeq(frontier, 1, Len(frontier) - 1)} :
          \A pushed \in {EntriesAbove(frontier', Len(frontier) - 1)} :
              /\ Len(frontier') >= Len(below)
              /\ SubSeq(frontier', 1, Len(below)) = below
              /\ pc' = "Solved" => (path' = top.path /\ frontier' = below)
              /\ \A i \in pushed :
                    /\ SubSeq(frontier'[i].path, 1, Len(frontier'[i].path) - 1) = top.path
                    /\ \E k \in 1..Len(Generated) :
                          /\ Generated[k].state = frontier'[i].state
                          /\ Generated[k].path = frontier'[i].path
                    /\ \A j \in pushed :
                          i < j => StepRank(top.state.agent_position,
                                            frontier'[i].state.agent_position)
                                     < StepRank(top.state.agent_position,
                                                frontier'[j].state.agent_position)
              /\ \A k \in 1..Len(Generated) :
                    compress_state(tiles, Generated[k].state) \notin visited =>
                        \E i \in pushed : frontier'[i].state = Generated[k].state]_vars

\* A stack with older entries below the two successors just pushed.
C29_Witness ==
    /\ pc = "Expanding" /\ algorithm = "DFS" /\ nodes_count >= 2
    /\ Len(frontier) >= 3
    /\ Len(frontier[Len(frontier)].path) = Len(frontier[Len(frontier) - 1].path)
    /\ Len(frontier[1].path) < Len(frontier[Len(frontier)].path)


\* C30: breadth_first_search removes entries in the order they were pushed.
\* A loop iteration takes the head of the queue and leaves the other
\* entries in their order, with the successors it pushes behind them; path
\* lengths never decrease along the queue and no entry left is shorter than
\* the one removed, so the path lengths of removed entries never decrease.
C30_BfsTakesOldestFirst ==
    [][(pc = "Expanding" /\ algorithm = "BFS" /\ pc' \in {"Expanding", "Exhausted", "Solved"}) =>
          \A head \in {frontier[1]} :
          \A others \in {Tail(frontier)} :
              /\ \A i, j \in 1..Len(frontier) :
                    i < j => Len(frontier[i].path) <= Len(frontier[j].path)
              /\ Len(frontier') >= Len(others)
              /\ SubSeq(frontier', 1, Len(others)) = others
              /\ pc' = "Solved" => (path' = head.path /\ frontier' = others)
              /\ \A i \in EntriesAbove(frontier', Len(others)) :
                    SubSeq(frontier'[i].path, 1, Len(frontier'[i].path) - 1) = head.path
              /\ \A j \in 1..Len(frontier') :
                    Len(frontier'[j].path) >= Len(head.path)]_vars

\* A queue that holds entries of two depths, the shallower ones in front.
C30_Witness ==
    /\ pc = "Expanding" /\ algorithm = "BFS" /\ nodes_count >= 3
    /\ Len(frontier) >= 3
    /\ Len(frontier[1].path) >= 1
    /\ Len(frontier[1].path) < Len(frontier[Len(frontier)].path)


\* Each switch's flag tells whether a stone stands on the switch.
FlagsMatchStones(s) ==
    \A p \in DOMAIN s.switches_states :
        s.switches_states[p] = (p \in DOMAIN s.stones_weights)

\* C32: in the parsed initial state and in every state the move generator
\* reaches from it, the switches are those of the initial state and each
\* switch's flag is True exactly when a stone stands on its position; so
\* is_finished holds exactly when every switch position holds a stone, and
\* the flags are determined by the stone positions.
C32_FlagsTellCoveredSwitches ==
    [][pc' = "Expanding" =>
          /\ \A e \in PushedEntries(frontier, frontier') :
                /\ DOMAIN e.state.switches_states = DOMAIN state.switches_states
                /\ FlagsMatchStones(e.state)
                /\ is_finished(e.state) <=>
                       (\A p \in DOMAIN e.state.switches_states :
                            p \in DOMAIN e.state.stones_weights)
          /\ \A i \in 1..Len(Generated) :
                /\ DOMAIN Generated[i].state.switches_states = DOMAIN state.switches_states
                /\ FlagsMatchStones(Generated[i].state)]_vars

\* A state in which one stone has been pushed off a switch and another
\* stone onto a switch.
C32_Witness ==
    /\ pc = "Expanding"
    /\ \E p, q \in DOMAIN state.switches_states :
          /\ state.switches_states[p] /\ ~NextEntry.state.switches_states[p]
          /\ ~state.switches_states[q] /\ NextEntry.state.switches_states[q]

C34_EntryPathLeadsToEntryState ==
    [][pc' = "Expanding" =>
          \A e \in PushedEntries(frontier, frontier') :
              /\ Replay(tiles, state, e.path, 1) = [legal |-> TRUE, state |-> e.state]
              /\ IF pc = "Expanding"
                 THEN /\ Len(e.path) >= 1
                      /\ \E i \in 1..Len(frontier) :
                            frontier[i].path = SubSeq(e.path, 1, Len(e.path) - 1)
                 ELSE e.path = <<>>]_vars

\* The frontier holds an entry whose path has three letters or more, a push
\* among them.
C34_Witness ==
    /\ pc = "Expanding" /\ Len(frontier) >= 2
    /\ \E i \in 1..Len(frontier) :
          /\ Len(frontier[i].path) >= 3
          /\ \E k \in 1..Len(frontier[i].path) : IsPushLetter(frontier[i].path[k])
          /\ frontier[i].state.stones_weights # state.stones_weights


\* A call of a search has ended: it returned True or False, or raised.
Ended == pc \in {"Solved", "Exhausted", "Error"}

MapCells(chars) ==
    {p \in (0..(Len(maze_strings_list) - 1)) \X (0..(MaxLineLen(maze_strings_list) - 1)) :
        /\ p[2] < Len(maze_strings_list[p[1] + 1])
        /\ maze_strings_list[p[1] + 1][p[2] + 1] \in chars}

\* C35: after a map is read, a cell that holds '+' is the agent's position
\* and a switch with its flag False, and the state read is finished only if
\* every switch cell of the map ('.', '*' or '+') holds a stone.
C35_AgentOnSwitchIsASwitch ==
    pc = "Ready" =>
        /\ \A p \in MapCells({"+"}) :
              /\ state.agent_position = p
              /\ p \in DOMAIN state.switches_states
              /\ state.switches_states[p] = FALSE
        /\ is_finished(state) =>
              \A p \in MapCells({".", "*", "+"}) : p \in DOMAIN state.stones_weights

\* The frames of main_loop go on: update is called once a frame as long as
\* the window runs.
GuiFairSpec == GuiSpec /\ WF_vars(Update)

\* C36: during the playback of a path, whenever the current action is a
\* push the stone images have an entry at the cell the pushed stone is moved
\* to, and Game.update never fails on a missing stone image; this holds
\* from the first letter of the path on.
C36_PushedStoneHasImage ==
    /\ (gui_pc = "Running" /\ game.is_animating /\ isupper(game.action))
          => Moved(game.agent_position, game.movement, 1) \in game.stones_images_positions
    /\ ~(gui_pc = "Crashed" /\ pc # "Error" /\ error = "KeyError")

\* A press of Start: the only step that disables the Start button.
StartPressed ==
    /\ gui_pc = "Running"
    /\ buttons["start"].mode # "disabled"
    /\ buttons'["start"].mode = "disabled"

\* C37: Game.start_animation never runs on an empty path: whenever Start is
\* pressed, after whatever search, the path has a first letter and
\* start_animation returns.
C37_StartFindsAPath ==
    [][StartPressed => (path # <<>> /\ gui_pc' = "Running")]_vars

\* An animation has been started and has not finished: Reset is enabled
\* from the press of Start until a reset.
StartedUnfinished ==
    /\ gui_pc = "Running"
    /\ buttons["reset"].mode # "disabled"
    /\ ~game.finished_animating

\* C38: whatever buttons were pressed, the Pause/Resume button reads
\* "Resume" exactly when a started, unfinished animation is paused and
\* "Pause" exactly when it runs.
C38_TextTellsPaused ==
    StartedUnfinished =>
        /\ buttons["pause_resume"].text = "Resume" <=> ~game.is_animating
        /\ buttons["pause_resume"].text = "Pause" <=> game.is_animating

\* A started animation that runs: not paused, not finished, not given up
\* for a search.
Playing ==
    /\ gui_pc = "Running"
    /\ path # <<>>
    /\ game.is_animating
    /\ ~game.finished_animating

\* C39: a started animation of a path of n >= 1 letters that is neither
\* paused nor reset stops in the end, finished, with the movement index at
\* n; the index goes up by one at a time and the path is never read at an
\* index of n or more.
C39_AnimationFinishes ==
    /\ [](Playing => game.movement_index < Len(path))
    /\ [][(Playing /\ game'.finished_animating)
             => (/\ ~game'.is_animating
                 /\ game'.movement_index = Len(path)
                 /\ game'.movement_index = game.movement_index + 1)]_vars
    /\ Playing ~> (~game.is_animating \/ gui_pc = "InTask")

====
